---- MODULE Spec2Model ----
(***************************************************************************)
(* Verification model of the Extractly acquisition pipeline:               *)
(*   app/services/fetcher.py          secure fetcher (fetch_url)           *)
(*   app/services/browser_fetcher.py  render fetcher                       *)
(*   app/services/detector.py         platform classifier                  *)
(*   app/services/crawler.py          BFS crawler                          *)
(*   app/services/deduplicator.py     boilerplate removal                  *)
(*   app/services/strategy.py         strategy orchestrator (auto_extract) *)
(*   app/routers/extract.py           POST /extract                        *)
(*   app/services/sanitizer.py        strip_shortcodes, sanitize           *)
(*   app/services/wordpress.py        site-API requests, items to pages    *)
(*   app/services/sitemap.py          sitemap discovery                    *)
(*   app/routers/scrape.py            POST /scrape                         *)
(* Each component has its own specification over the shared variables;     *)
(* the variables of the other components stay at their idle values.        *)
(***************************************************************************)
EXTENDS Integers, Sequences, FiniteSets, TLC

VARIABLES
    \* ---- fetcher.py: one call of fetch_url ----
    f_pc,          \* position inside fetch_url
    f_url,         \* the argument url
    current_url,   \* local current_url
    f_iter,        \* number of completed iterations of the for loop
    response,      \* the response being handled (status, location, content-length)
    total,         \* local total (bytes streamed so far)
    f_chunks,      \* sizes of the chunks read by the aiter_bytes loop
    f_validated,   \* history: URLs on which _validate_url returned normally
    f_requested,   \* history: URLs for which client.stream("GET", ..) was issued
    f_nreq,        \* history: number of requests issued
    f_rejected,    \* history: redirect targets on which _validate_url raised
    f_result,      \* outcome of the call
    \* ---- browser_fetcher.py: one call of fetch_url_with_browser ----
    b_pc,          \* position inside fetch_url_with_browser
    b_url,         \* the argument url
    b_selector,    \* the argument wait_for_selector ("" stands for None)
    b_wait_ms,     \* the argument wait_ms
    b_browser,     \* the browser: "none", "open" or "closed"
    b_context,     \* the browser context: "none", "open" or "closed"
    b_page,        \* TRUE once context.new_page() returned
    b_hops,        \* redirects the browser followed during page.goto
    b_navigated,   \* history: URLs the browser requested during page.goto
    b_html,        \* size in bytes of the captured html (-1: none)
    b_exc,         \* the exception in flight ("none" when there is none)
    b_result,      \* outcome of the call
    \* ---- detector.py: one call of detect_platform ----
    d_pc,          \* "start" before the call, "done" after it
    d_html,        \* the argument html, as a sequence of markup fragments
    d_word_count,  \* the argument word_count
    d_result,      \* the returned platform type
    \* ---- crawler.py: one call of crawl ----
    c_pc,          \* position inside crawl
    start_url,     \* the argument start_url
    c_max_pages,   \* the argument max_pages
    max_depth,     \* the argument max_depth
    max_pages,     \* the local max_pages after line 100
    base_netloc,   \* local base_netloc
    visited,       \* local visited
    queue,         \* local queue, entries [url, depth]
    results,       \* local results: the url of each PageData, in order
    c_cur,         \* the [url, depth] whose fetch is awaited
    c_fetched,     \* history: [url, depth] of every fetch_url call, in order
    c_skipped,     \* history: URLs dropped by _should_skip
    c_site,        \* environment: the link structure of the site
    c_failing,     \* environment: the pages whose fetch fails
    \* ---- deduplicator.py: one call of remove_boilerplate ----
    dd_pc,         \* "call" before the call, "done" after it
    dd_pages,      \* the argument pages: a sequence of page texts
    threshold,     \* the argument threshold, in hundredths
    boilerplate,   \* local boilerplate (blocks found in at least min_count pages)
    cleaned,       \* the returned page list
    dd_flag,       \* the returned boolean
    \* ---- strategy.py, routers/extract.py: one call of extract_site ----
    x_pc,          \* position inside extract_site / auto_extract
    x_url,         \* the argument start_url
    x_max_pages,   \* the argument max_pages
    x_max_depth,   \* the argument max_depth
    include_images,\* the argument include_images
    include_links, \* the argument include_links
    x_limit,       \* the local max_pages after line 109
    x_api_pages,   \* the list extract_via_wordpress_api returned
    sitemap_urls,  \* local sitemap_urls
    x_idx,         \* _extract_url_list: number of urls the for loop has taken
    seen,          \* _extract_url_list: local seen
    x_results,     \* _extract_url_list: local results
    strategy,      \* the returned strategy name ("none" before the return)
    x_pages,       \* the returned page list
    x_calls,       \* history: the strategy functions called, in order
    x_api_outcome, \* history: how extract_via_wordpress_api ended
    x_status,      \* extract_site: HTTP status of the response (0: none yet)
    r_pages,       \* extract_site: the pages of the response
    \* ---- sanitizer (sanitize) ----
    s_pc,          \* sanitize: "start", "sanitized", "resanitized"
    s_html,        \* the markup given to sanitize
    s_soup,        \* the tree sanitize returned
    s_again,       \* the tree sanitize returned for str(s_soup)
    \* ---- wordpress (extract_via_wordpress_api) ----
    w_pc,          \* extract_via_wordpress_api: "resource", "items", "done"
    w_max_pages,   \* its argument max_pages
    w_resource,    \* index in _WP_RESOURCES of the resource of the current iteration
    w_n,           \* items of the current resource's list not yet iterated
    w_pages,       \* pages
    seen_urls,     \* seen_urls
    w_src,         \* history: for each page of w_pages, the item it was converted from
    \* ---- routers/scrape (scrape) ----
    sc_pc,         \* scrape: "step1", "step2", "step3", "step4", "done", "raised"
    render_mode,   \* body.render_mode
    sc_include_images,\* body.include_images
    sc_include_links,\* body.include_links
    sc_html,       \* html: the page last fetched (NoHtml: none yet)
    sc_extracted,  \* title, description, content_markdown, images, videos, links, word_count
    platform_type, \* platform_type ("none": not yet set)
    sc_calls,      \* history: the fetchers invoked, in order
    sc_http_type,  \* history: the classification step 2 gave
    sc_status,     \* HTTP status of the response (0: none yet)
    sc_response,   \* the ScrapeResponse returned
    sc_exc,        \* history: the exception the step-1 fetch raised ("none": none)
    \* ---- sitemap.py: one call of discover_urls_via_sitemap ----
    sm_pc,         \* discover_urls_via_sitemap: "probe", "loop", "for", "done"
    base_url,      \* the argument base_url
    sm_site,       \* environment: the sitemap files the site serves
    sm_path,       \* index in _SITEMAP_PATHS of the path of the current iteration
    initial_sitemap,\* local initial_sitemap (NoSUrl: the empty string)
    sitemap_queue, \* local sitemap_queue
    processed_sitemaps,\* local processed_sitemaps
    seen_content,  \* local seen_content
    content_urls,  \* local content_urls
    sm_locs,       \* the <loc> values the for loop has not yet taken
    sm_probed,     \* history: the candidates fetched by the probing loop, in order
    sm_fetched,    \* history: the sitemap URLs fetched by the expansion loop, in order
    sm_stream,     \* history: every <loc> the expansion loop iterated over, in order
    \* ---- wordpress.py: one call of is_wordpress or _fetch_wp_resource ----
    a_pc,          \* is_wordpress / _fetch_wp_resource: "call", "loop", "await", "done", "raised"
    a_fn,          \* the function called: "is_wordpress" or "_fetch_wp_resource"
    a_base_url,    \* the argument base_url
    a_resource,    \* the argument resource ("" for is_wordpress)
    a_max_items,   \* the argument max_items
    a_page,        \* local page
    a_results,     \* local results: for each item, the API page it came with
    a_url,         \* the URL of the request in flight
    a_hops,        \* redirects the client followed for the current client.get
    a_requested,   \* history: every URL a request was sent to
    a_pages,       \* history: the page parameter of every client.get, in order
    a_log,         \* history: the response every client.get ended with, in order
    a_ret,         \* the returned list
    a_detected,    \* the value is_wordpress returned ("none": not returned)
    a_exc          \* the exception the call raised ("none": none)

fetchVars == <<f_pc, f_url, current_url, f_iter, response, total, f_chunks,
               f_validated, f_requested, f_nreq, f_rejected, f_result>>

browserVars == <<b_pc, b_url, b_selector, b_wait_ms, b_browser, b_context, b_page,
                 b_hops, b_navigated, b_html, b_exc, b_result>>

detectVars == <<d_pc, d_html, d_word_count, d_result>>

crawlVars == <<c_pc, start_url, c_max_pages, max_depth, max_pages, base_netloc,
               visited, queue, results, c_cur, c_fetched, c_skipped, c_site, c_failing>>

dedupVars == <<dd_pc, dd_pages, threshold, boilerplate, cleaned, dd_flag>>

extractVars == <<x_pc, x_url, x_max_pages, x_max_depth, include_images, include_links,
                 x_limit, x_api_pages, sitemap_urls, x_idx, seen, x_results, strategy,
                 x_pages, x_calls, x_api_outcome, x_status, r_pages>>

sanitizeVars == <<s_pc, s_html, s_soup, s_again>>

wpVars == <<w_pc, w_max_pages, w_resource, w_n, w_pages, seen_urls, w_src>>

scrapeVars == <<sc_pc, render_mode, sc_include_images, sc_include_links, sc_html, sc_extracted, platform_type, sc_calls, sc_http_type, sc_status, sc_response, sc_exc>>

sitemapVars == <<sm_pc, base_url, sm_site, sm_path, initial_sitemap, sitemap_queue, processed_sitemaps, seen_content, content_urls, sm_locs, sm_probed, sm_fetched, sm_stream>>

apiVars == <<a_pc, a_fn, a_base_url, a_resource, a_max_items, a_page, a_results, a_url, a_hops, a_requested, a_pages, a_log, a_ret, a_detected, a_exc>>

vars == <<fetchVars, browserVars, detectVars, crawlVars, dedupVars, extractVars, sanitizeVars, wpVars, scrapeVars, sitemapVars, apiVars>>

nonFetchVars == <<browserVars, detectVars, crawlVars, dedupVars, extractVars, sanitizeVars, wpVars, scrapeVars, sitemapVars, apiVars>>
nonBrowserVars == <<fetchVars, detectVars, crawlVars, dedupVars, extractVars, sanitizeVars, wpVars, scrapeVars, sitemapVars, apiVars>>
nonDetectVars == <<fetchVars, browserVars, crawlVars, dedupVars, extractVars, sanitizeVars, wpVars, scrapeVars, sitemapVars, apiVars>>
nonCrawlVars == <<fetchVars, browserVars, detectVars, dedupVars, extractVars, sanitizeVars, wpVars, scrapeVars, sitemapVars, apiVars>>
nonDedupVars == <<fetchVars, browserVars, detectVars, crawlVars, extractVars, sanitizeVars, wpVars, scrapeVars, sitemapVars, apiVars>>
nonExtractVars == <<fetchVars, browserVars, detectVars, crawlVars, dedupVars, sanitizeVars, wpVars, scrapeVars, sitemapVars, apiVars>>
nonCrawlExtractVars == <<fetchVars, browserVars, detectVars, dedupVars, sanitizeVars, wpVars, scrapeVars, sitemapVars, apiVars>>
nonSanitizeVars == <<fetchVars, browserVars, detectVars, crawlVars, dedupVars, extractVars, wpVars, scrapeVars, sitemapVars, apiVars>>
nonWpVars == <<fetchVars, browserVars, detectVars, crawlVars, dedupVars, extractVars, sanitizeVars, scrapeVars, sitemapVars, apiVars>>
nonScrapeVars == <<fetchVars, browserVars, detectVars, crawlVars, dedupVars, extractVars, sanitizeVars, wpVars, sitemapVars, apiVars>>
nonSitemapVars == <<fetchVars, browserVars, detectVars, crawlVars, dedupVars, extractVars, sanitizeVars, wpVars, scrapeVars, apiVars>>
nonApiVars == <<fetchVars, browserVars, detectVars, crawlVars, dedupVars, extractVars, sanitizeVars, wpVars, scrapeVars, sitemapVars>>

NoUrl == [scheme |-> "none", hostname |-> "", path |-> ""]
NoLocation == [kind |-> "none"]
NoResponse == [status |-> 0, location |-> NoLocation, content_length |-> -1]
NoResult == [kind |-> "none", status |-> 0, size |-> 0]

(***************************************************************************)
(* fetcher.py                                                              *)
(***************************************************************************)
MAX_CONTENT_SIZE == 10 * 1024 * 1024
MAX_REDIRECTS == 10
ALLOWED_SCHEMES == {"http", "https"}

\* Bound on the number of chunks a response body is delivered in.
MaxChunks == 2

Url(s, h, p) == [scheme |-> s, hostname |-> h, path |-> p]

\* The URLs a caller or a Location header can name (parsed as urlparse does).
FetchUrls ==
    { Url("http", "pub.example", "/"),
      Url("https", "pub.example", "/a"),
      Url("http", "nx.invalid", "/"),
      Url("http", "internal.corp", "/"),
      Url("http", "dual.example", "/"),
      Url("http", "", "/a"),
      Url("file", "", "/etc/passwd"),
      Url("ftp", "pub.example", "/") }

\* socket.getaddrinfo: the classes of the addresses a hostname resolves to;
\* the empty set stands for socket.gaierror.
Resolve(hostname) ==
    CASE hostname = "pub.example"   -> {"public"}
      [] hostname = "internal.corp" -> {"private"}
      [] hostname = "dual.example"  -> {"public", "loopback"}
      [] OTHER                      -> {}

BlockedClasses == {"private", "loopback", "link_local", "reserved"}

_is_private_address(hostname) ==
    \E cls \in Resolve(hostname) : cls \in BlockedClasses

\* TRUE iff _validate_url(url) returns without raising ValueError.
_validate_url(url) ==
    /\ url.scheme \in ALLOWED_SCHEMES
    /\ url.hostname # ""
    /\ ~_is_private_address(url.hostname)

\* Location header values: an absolute URL, a relative path or the empty string.
Locations == [kind : {"abs"}, url : FetchUrls]
             \cup {[kind |-> "rel", path |-> "/a"], [kind |-> "empty"]}

\* urllib.parse.urljoin(current_url, location)
urljoin(base, location) ==
    CASE location.kind = "abs"   -> location.url
      [] location.kind = "rel"   -> [base EXCEPT !.path = location.path]
      [] location.kind = "empty" -> base

RedirectCodes == {301, 302, 303, 307, 308}
Statuses == {200, 204, 302, 304, 404, 503}
ContentLengths == {-1, 0, MAX_CONTENT_SIZE, MAX_CONTENT_SIZE + 1}
ChunkSizes == {1, MAX_CONTENT_SIZE \div 2, MAX_CONTENT_SIZE}

\* What a server can answer: a redirect carries a Location header, any other
\* status may carry a Content-Length header (-1: header absent).
Responses ==
    [status : Statuses \cap RedirectCodes, location : Locations, content_length : {-1}]
    \cup [status : Statuses, location : {NoLocation}, content_length : ContentLengths]

\* httpx.Response.is_redirect
is_redirect(r) == r.status \in RedirectCodes /\ r.location.kind # "none"

\* fault variant: only 4xx and 5xx count as errors
is_success_Lenient(r) == r.status < 400

\* httpx.Response.is_success
is_success(r) == r.status >= 200 /\ r.status <= 299

\* fault variant: range(MAX_REDIRECTS)
LoopIterations_OffByOne == MAX_REDIRECTS

\* range(MAX_REDIRECTS + 1)
LoopIterations == MAX_REDIRECTS + 1

\* fault variant: the streamed total is never compared with the cap
ExceedsCap_HeaderOnly(n) == FALSE

\* total > MAX_CONTENT_SIZE
ExceedsCap(n) == n > MAX_CONTENT_SIZE

FetchFinish(kind, status, size) ==
    /\ f_pc' = "done"
    /\ f_result' = [kind |-> kind, status |-> status, size |-> size]

FetchInit ==
    /\ f_pc = "start"
    /\ f_url \in FetchUrls
    /\ current_url = NoUrl
    /\ f_iter = 0
    /\ response = NoResponse
    /\ total = 0
    /\ f_chunks = <<>>
    /\ f_validated = {}
    /\ f_requested = {}
    /\ f_nreq = 0
    /\ f_rejected = {}
    /\ f_result = NoResult

\* No call of fetch_url is in progress.
FetchIdle ==
    /\ f_pc = "idle"
    /\ f_url = NoUrl
    /\ current_url = NoUrl
    /\ f_iter = 0
    /\ response = NoResponse
    /\ total = 0
    /\ f_chunks = <<>>
    /\ f_validated = {}
    /\ f_requested = {}
    /\ f_nreq = 0
    /\ f_rejected = {}
    /\ f_result = NoResult

\* line 59-61: _validate_url(url); current_url = url
FetchValidateOk ==
    /\ f_pc = "start"
    /\ UNCHANGED nonFetchVars
    /\ _validate_url(f_url)
    /\ f_validated' = f_validated \cup {f_url}
    /\ current_url' = f_url
    /\ f_pc' = "loop"
    /\ UNCHANGED <<f_url, f_iter, response, total, f_chunks, f_requested,
                   f_nreq, f_rejected, f_result>>

FetchValidateFail ==
    /\ f_pc = "start"
    /\ UNCHANGED nonFetchVars
    /\ ~_validate_url(f_url)
    /\ FetchFinish("ValueError", 0, 0)
    /\ UNCHANGED <<f_url, current_url, f_iter, response, total, f_chunks,
                   f_validated, f_requested, f_nreq, f_rejected>>

\* line 63-64: next iteration, client.stream("GET", current_url) answers
FetchRequest ==
    /\ f_pc = "loop"
    /\ UNCHANGED nonFetchVars
    /\ f_iter < LoopIterations
    /\ f_requested' = f_requested \cup {current_url}
    /\ f_nreq' = f_nreq + 1
    /\ \E r \in Responses :
         /\ Resolve(current_url.hostname) # {}
         /\ response' = r
         /\ f_pc' = "response"
    /\ UNCHANGED <<f_url, current_url, f_iter, total, f_chunks, f_validated,
                   f_rejected, f_result>>

\* line 64: the request raises httpx.HTTPError (connect error, timeout, ...)
FetchRequestError ==
    /\ f_pc = "loop"
    /\ UNCHANGED nonFetchVars
    /\ f_iter < LoopIterations
    /\ f_requested' = f_requested \cup {current_url}
    /\ f_nreq' = f_nreq + 1
    /\ FetchFinish("HTTPError", 0, 0)
    /\ UNCHANGED <<f_url, current_url, f_iter, response, total, f_chunks,
                   f_validated, f_rejected>>

\* fault variant: the redirect target is followed without _validate_url
FetchRedirectOk_Unvalidated ==
    /\ f_pc = "response"
    /\ UNCHANGED nonFetchVars
    /\ is_redirect(response)
    /\ current_url' = urljoin(current_url, response.location)
    /\ f_iter' = f_iter + 1
    /\ f_pc' = "loop"
    /\ response' = NoResponse
    /\ UNCHANGED <<f_url, total, f_chunks, f_validated, f_requested, f_nreq,
                   f_rejected, f_result>>

\* line 65-70: redirect whose target passes validation
FetchRedirectOk ==
    /\ f_pc = "response"
    /\ UNCHANGED nonFetchVars
    /\ is_redirect(response)
    /\ LET next_url == urljoin(current_url, response.location) IN
         /\ _validate_url(next_url)
         /\ f_validated' = f_validated \cup {next_url}
         /\ current_url' = next_url
    /\ f_iter' = f_iter + 1
    /\ f_pc' = "loop"
    /\ response' = NoResponse
    /\ UNCHANGED <<f_url, total, f_chunks, f_requested, f_nreq, f_rejected, f_result>>

\* line 68: _validate_url(next_url) raises
FetchRedirectBlocked ==
    /\ f_pc = "response"
    /\ UNCHANGED nonFetchVars
    /\ is_redirect(response)
    /\ LET next_url == urljoin(current_url, response.location) IN
         /\ ~_validate_url(next_url)
         /\ f_rejected' = f_rejected \cup {next_url}
    /\ FetchFinish("ValueError", 0, 0)
    /\ UNCHANGED <<f_url, current_url, f_iter, response, total, f_chunks,
                   f_validated, f_requested, f_nreq>>

\* line 72: response.raise_for_status() raises httpx.HTTPStatusError
FetchStatusError ==
    /\ f_pc = "response"
    /\ UNCHANGED nonFetchVars
    /\ ~is_redirect(response)
    /\ ~is_success(response)
    /\ FetchFinish("HTTPStatusError", response.status, 0)
    /\ UNCHANGED <<f_url, current_url, f_iter, response, total, f_chunks,
                   f_validated, f_requested, f_nreq, f_rejected>>

\* line 74-79: Content-Length check, then start streaming
FetchCheckLength ==
    /\ f_pc = "response"
    /\ UNCHANGED nonFetchVars
    /\ ~is_redirect(response)
    /\ is_success(response)
    /\ IF response.content_length # -1 /\ response.content_length > MAX_CONTENT_SIZE
         THEN /\ FetchFinish("TooLarge", 0, 0)
              /\ UNCHANGED total
         ELSE /\ f_pc' = "stream"
              /\ total' = 0
              /\ UNCHANGED f_result
    /\ UNCHANGED <<f_url, current_url, f_iter, response, f_chunks, f_validated,
                   f_requested, f_nreq, f_rejected>>

\* line 80-84: one chunk arrives
FetchReadChunk ==
    /\ f_pc = "stream"
    /\ UNCHANGED nonFetchVars
    /\ Len(f_chunks) < MaxChunks
    /\ \E chunk \in ChunkSizes :
         /\ total' = total + chunk
         /\ f_chunks' = Append(f_chunks, chunk)
         /\ IF ExceedsCap(total + chunk)
              THEN FetchFinish("TooLarge", 0, 0)
              ELSE UNCHANGED <<f_pc, f_result>>
    /\ UNCHANGED <<f_url, current_url, f_iter, response, f_validated,
                   f_requested, f_nreq, f_rejected>>

\* line 80: the stream raises httpx.HTTPError (read error, read timeout)
FetchStreamError ==
    /\ f_pc = "stream"
    /\ UNCHANGED nonFetchVars
    /\ FetchFinish("HTTPError", 0, 0)
    /\ UNCHANGED <<f_url, current_url, f_iter, response, total, f_chunks,
                   f_validated, f_requested, f_nreq, f_rejected>>

\* line 86: end of stream, return the decoded body
FetchReturn ==
    /\ f_pc = "stream"
    /\ UNCHANGED nonFetchVars
    /\ FetchFinish("body", response.status, total)
    /\ UNCHANGED <<f_url, current_url, f_iter, response, total, f_chunks,
                   f_validated, f_requested, f_nreq, f_rejected>>

\* line 88: the for loop is exhausted
FetchTooManyRedirects ==
    /\ f_pc = "loop"
    /\ UNCHANGED nonFetchVars
    /\ f_iter >= LoopIterations
    /\ FetchFinish("TooManyRedirects", 0, 0)
    /\ UNCHANGED <<f_url, current_url, f_iter, response, total, f_chunks,
                   f_validated, f_requested, f_nreq, f_rejected>>

FetchNext ==
    \/ FetchValidateOk
    \/ FetchValidateFail
    \/ FetchRequest
    \/ FetchRequestError
    \/ FetchRedirectOk
    \/ FetchRedirectBlocked
    \/ FetchStatusError
    \/ FetchCheckLength
    \/ FetchReadChunk
    \/ FetchStreamError
    \/ FetchReturn
    \/ FetchTooManyRedirects

(***************************************************************************)
(* browser_fetcher.py                                                      *)
(***************************************************************************)
\* Bound on the redirects the browser follows inside one page.goto.
MaxBrowserHops == 2

Selectors == {"", "#app"}
WaitMs == {0, 500}
HtmlSizes == {1024, MAX_CONTENT_SIZE, MAX_CONTENT_SIZE + 1}

\* browser_fetcher._validate_url: the same three rules as fetcher._validate_url
browser_validate_url(url) ==
    /\ url.scheme \in ALLOWED_SCHEMES
    /\ url.hostname # ""
    /\ ~_is_private_address(url.hostname)

\* Redirect targets Chromium follows during a navigation: http(s) URLs with a
\* host; the repository installs no route handler that filters them.
BrowserRedirectTargets ==
    {u \in FetchUrls : u.scheme \in {"http", "https"} /\ u.hostname # ""}

BrowserFinish(kind) ==
    /\ b_pc' = "done"
    /\ b_result' = kind

BrowserInit ==
    /\ b_pc = "start"
    /\ b_url \in FetchUrls
    /\ b_selector \in Selectors
    /\ b_wait_ms \in WaitMs
    /\ b_browser = "none"
    /\ b_context = "none"
    /\ b_page = FALSE
    /\ b_hops = 0
    /\ b_navigated = {}
    /\ b_html = -1
    /\ b_exc = "none"
    /\ b_result = "none"

\* No call of fetch_url_with_browser is in progress.
BrowserIdle ==
    /\ b_pc = "idle"
    /\ b_url = NoUrl
    /\ b_selector = ""
    /\ b_wait_ms = 0
    /\ b_browser = "none"
    /\ b_context = "none"
    /\ b_page = FALSE
    /\ b_hops = 0
    /\ b_navigated = {}
    /\ b_html = -1
    /\ b_exc = "none"
    /\ b_result = "none"

\* line 62: _validate_url(url) returns
BrowserValidateOk ==
    /\ b_pc = "start"
    /\ browser_validate_url(b_url)
    /\ b_pc' = "launch"
    /\ UNCHANGED <<b_url, b_selector, b_wait_ms, b_browser, b_context, b_page,
                   b_hops, b_navigated, b_html, b_exc, b_result>>
    /\ UNCHANGED nonBrowserVars

\* line 62: _validate_url(url) raises ValueError
BrowserValidateFail ==
    /\ b_pc = "start"
    /\ ~browser_validate_url(b_url)
    /\ BrowserFinish("ValueError")
    /\ UNCHANGED <<b_url, b_selector, b_wait_ms, b_browser, b_context, b_page,
                   b_hops, b_navigated, b_html, b_exc>>
    /\ UNCHANGED nonBrowserVars

\* line 64-76: async_playwright() entered, pw.chromium.launch(...) returns
BrowserLaunch ==
    /\ b_pc = "launch"
    /\ b_browser' = "open"
    /\ b_pc' = "new_context"
    /\ UNCHANGED <<b_url, b_selector, b_wait_ms, b_context, b_page, b_hops,
                   b_navigated, b_html, b_exc, b_result>>
    /\ UNCHANGED nonBrowserVars

\* line 65: pw.chromium.launch(...) raises; no browser exists
BrowserLaunchFail ==
    /\ b_pc = "launch"
    /\ b_exc' = "Error"
    /\ b_pc' = "exit"
    /\ UNCHANGED <<b_url, b_selector, b_wait_ms, b_browser, b_context, b_page,
                   b_hops, b_navigated, b_html, b_result>>
    /\ UNCHANGED nonBrowserVars

\* line 77: context = await browser.new_context()
BrowserNewContext ==
    /\ b_pc = "new_context"
    /\ b_context' = "open"
    /\ b_pc' = "new_page"
    /\ UNCHANGED <<b_url, b_selector, b_wait_ms, b_browser, b_page, b_hops,
                   b_navigated, b_html, b_exc, b_result>>
    /\ UNCHANGED nonBrowserVars

\* line 78: page = await context.new_page()
BrowserNewPage ==
    /\ b_pc = "new_page"
    /\ b_page' = TRUE
    /\ b_pc' = "goto"
    /\ UNCHANGED <<b_url, b_selector, b_wait_ms, b_browser, b_context, b_hops,
                   b_navigated, b_html, b_exc, b_result>>
    /\ UNCHANGED nonBrowserVars

\* line 77-78: new_context() or new_page() raises; both statements stand
\* before the try, so the exception leaves the async-with block directly
BrowserSetupFail ==
    /\ b_pc \in {"new_context", "new_page"}
    /\ b_exc' = "Error"
    /\ b_pc' = "exit"
    /\ UNCHANGED <<b_url, b_selector, b_wait_ms, b_browser, b_context, b_page,
                   b_hops, b_navigated, b_html, b_result>>
    /\ UNCHANGED nonBrowserVars

\* line 80: page.goto(url, ...) starts: the browser requests url
BrowserGoto ==
    /\ b_pc = "goto"
    /\ b_navigated' = b_navigated \cup {b_url}
    /\ b_pc' = "navigating"
    /\ UNCHANGED <<b_url, b_selector, b_wait_ms, b_browser, b_context, b_page,
                   b_hops, b_html, b_exc, b_result>>
    /\ UNCHANGED nonBrowserVars

\* line 80: the server answers with a redirect, which the browser follows
BrowserFollowRedirect ==
    /\ b_pc = "navigating"
    /\ b_hops < MaxBrowserHops
    /\ \E target \in BrowserRedirectTargets :
         b_navigated' = b_navigated \cup {target}
    /\ b_hops' = b_hops + 1
    /\ UNCHANGED <<b_pc, b_url, b_selector, b_wait_ms, b_browser, b_context,
                   b_page, b_html, b_exc, b_result>>
    /\ UNCHANGED nonBrowserVars

\* line 80-86: page.goto returns (network idle); the optional waits follow
BrowserGotoDone ==
    /\ b_pc = "navigating"
    /\ b_pc' = IF b_selector # "" THEN "wait_for_selector"
               ELSE IF b_wait_ms > 0 THEN "wait_for_timeout"
               ELSE "content"
    /\ UNCHANGED <<b_url, b_selector, b_wait_ms, b_browser, b_context, b_page,
                   b_hops, b_navigated, b_html, b_exc, b_result>>
    /\ UNCHANGED nonBrowserVars

\* line 82-83: page.wait_for_selector(...) returns
BrowserWaitForSelector ==
    /\ b_pc = "wait_for_selector"
    /\ b_pc' = IF b_wait_ms > 0 THEN "wait_for_timeout" ELSE "content"
    /\ UNCHANGED <<b_url, b_selector, b_wait_ms, b_browser, b_context, b_page,
                   b_hops, b_navigated, b_html, b_exc, b_result>>
    /\ UNCHANGED nonBrowserVars

\* line 85-86: page.wait_for_timeout(wait_ms) returns
BrowserWaitForTimeout ==
    /\ b_pc = "wait_for_timeout"
    /\ b_pc' = "content"
    /\ UNCHANGED <<b_url, b_selector, b_wait_ms, b_browser, b_context, b_page,
                   b_hops, b_navigated, b_html, b_exc, b_result>>
    /\ UNCHANGED nonBrowserVars

\* line 88: html = await page.content()
BrowserContent ==
    /\ b_pc = "content"
    /\ b_html' \in HtmlSizes
    /\ b_pc' = "context_close"
    /\ UNCHANGED <<b_url, b_selector, b_wait_ms, b_browser, b_context, b_page,
                   b_hops, b_navigated, b_exc, b_result>>
    /\ UNCHANGED nonBrowserVars

\* line 80-88: an await inside the try raises; control goes to the finally
BrowserTryFail ==
    /\ b_pc \in {"navigating", "wait_for_selector", "wait_for_timeout", "content"}
    /\ b_exc' = "Error"
    /\ b_pc' = "context_close"
    /\ UNCHANGED <<b_url, b_selector, b_wait_ms, b_browser, b_context, b_page,
                   b_hops, b_navigated, b_html, b_result>>
    /\ UNCHANGED nonBrowserVars

\* line 90: await context.close() returns
BrowserContextClose ==
    /\ b_pc = "context_close"
    /\ b_context' = "closed"
    /\ b_pc' = "browser_close"
    /\ UNCHANGED <<b_url, b_selector, b_wait_ms, b_browser, b_page, b_hops,
                   b_navigated, b_html, b_exc, b_result>>
    /\ UNCHANGED nonBrowserVars

\* line 90: await context.close() raises: the rest of the finally block is
\* skipped; whether the context was released is not known
BrowserContextCloseFail ==
    /\ b_pc = "context_close"
    /\ b_context' \in {"open", "closed"}
    /\ b_exc' = "Error"
    /\ b_pc' = "exit"
    /\ UNCHANGED <<b_url, b_selector, b_wait_ms, b_browser, b_page, b_hops,
                   b_navigated, b_html, b_result>>
    /\ UNCHANGED nonBrowserVars

\* line 91: await browser.close() returns
BrowserBrowserClose ==
    /\ b_pc = "browser_close"
    /\ b_browser' = "closed"
    /\ b_pc' = "exit"
    /\ UNCHANGED <<b_url, b_selector, b_wait_ms, b_context, b_page, b_hops,
                   b_navigated, b_html, b_exc, b_result>>
    /\ UNCHANGED nonBrowserVars

\* line 91: await browser.close() raises
BrowserBrowserCloseFail ==
    /\ b_pc = "browser_close"
    /\ b_browser' \in {"open", "closed"}
    /\ b_exc' = "Error"
    /\ b_pc' = "exit"
    /\ UNCHANGED <<b_url, b_selector, b_wait_ms, b_context, b_page, b_hops,
                   b_navigated, b_html, b_result>>
    /\ UNCHANGED nonBrowserVars

\* line 64, 93-96: the async-with block is left; a pending exception
\* propagates, otherwise the size check decides the result
BrowserExit ==
    /\ b_pc = "exit"
    /\ IF b_exc # "none" THEN BrowserFinish(b_exc)
       ELSE IF b_html > MAX_CONTENT_SIZE THEN BrowserFinish("TooLarge")
       ELSE BrowserFinish("html")
    /\ UNCHANGED <<b_url, b_selector, b_wait_ms, b_browser, b_context, b_page,
                   b_hops, b_navigated, b_html, b_exc>>
    /\ UNCHANGED nonBrowserVars

BrowserNext ==
    \/ BrowserValidateOk
    \/ BrowserValidateFail
    \/ BrowserLaunch
    \/ BrowserLaunchFail
    \/ BrowserNewContext
    \/ BrowserNewPage
    \/ BrowserSetupFail
    \/ BrowserGoto
    \/ BrowserFollowRedirect
    \/ BrowserGotoDone
    \/ BrowserWaitForSelector
    \/ BrowserWaitForTimeout
    \/ BrowserContent
    \/ BrowserTryFail
    \/ BrowserContextClose
    \/ BrowserContextCloseFail
    \/ BrowserBrowserClose
    \/ BrowserBrowserCloseFail
    \/ BrowserExit

(***************************************************************************)
(* detector.py                                                             *)
(***************************************************************************)
\* Bound on the number of markup fragments in one document.
MaxFragments == 2

_SPA_MIN_WORDS == 20

\* Fragments that _WP_PATTERN matches (re.IGNORECASE).
WpFragments ==
    { "<link href='/wp-content/themes/x.css'>",
      "<script src='/WP-INCLUDES/js/a.js'>",
      "<link rel='https://api.w.org/' href='/wp-json/'>",
      "<meta name='generator' content='WordPress 6.4'>" }

\* Fragments that _SPA_PATTERN matches (re.IGNORECASE).
SpaFragments ==
    { "<div id=\"root\">",
      "<div class='x' id=\"__next\">",
      "<DIV ID=\"app\">",
      "<div id=\"__nuxt\">",
      "<script>window.__NUXT__={}</script>",
      "<script id='__NEXT_DATA__'>",
      "<app-root ng-version='17.0.0'>",
      "<div data-reactroot=''>",
      "<svelte:head>" }

\* Fragments that neither pattern matches: text, a generator other than
\* WordPress, a path without the slashes, a mount id closed by a single quote
\* (the patterns accept only a double quote there) and an id on another tag.
PlainFragments ==
    { "<p>Hello world</p>",
      "<meta name='generator' content='Hugo 0.1'>",
      "<a href='/wp-contents'>",
      "<div id='root'>",
      "<section id=\"app\">" }

HtmlFragments == WpFragments \cup SpaFragments \cup PlainFragments

RECURSIVE SeqsUpTo(_, _)
SeqsUpTo(S, n) ==
    IF n = 0 THEN {<<>>}
    ELSE LET shorter == SeqsUpTo(S, n - 1) IN
         shorter \cup {Append(q, x) : q \in shorter, x \in S}

WordCounts == {0, 1, 19, 20, 21, 500}

\* _WP_PATTERN.search(html)
WpPatternSearch(html) == \E i \in DOMAIN html : html[i] \in WpFragments

\* _SPA_PATTERN.search(html)
SpaPatternSearch(html) == \E i \in DOMAIN html : html[i] \in SpaFragments

\* fault variant: word_count <= _SPA_MIN_WORDS
detect_platform_Inclusive(html, word_count) ==
    IF WpPatternSearch(html) THEN "wordpress"
    ELSE IF word_count <= _SPA_MIN_WORDS /\ SpaPatternSearch(html) THEN "spa"
    ELSE "ssr"

detect_platform(html, word_count) ==
    IF WpPatternSearch(html) THEN "wordpress"
    ELSE IF word_count < _SPA_MIN_WORDS /\ SpaPatternSearch(html) THEN "spa"
    ELSE "ssr"

DetectInit ==
    /\ d_pc = "start"
    /\ d_html \in SeqsUpTo(HtmlFragments, MaxFragments)
    /\ d_word_count \in WordCounts
    /\ d_result = "none"

\* No call of detect_platform is in progress.
DetectIdle ==
    /\ d_pc = "idle"
    /\ d_html = <<>>
    /\ d_word_count = 0
    /\ d_result = "none"

\* line 76-96: the call returns
Detect ==
    /\ d_pc = "start"
    /\ d_result' = detect_platform(d_html, d_word_count)
    /\ d_pc' = "done"
    /\ UNCHANGED <<d_html, d_word_count>>
    /\ UNCHANGED nonDetectVars

DetectNext == Detect

(***************************************************************************)
(* crawler.py                                                              *)
(*                                                                         *)
(* A URL is the record urlparse yields.  The path is kept as the sequence  *)
(* of tokens dir followed, when leaf >= 0, by the page name "p<leaf>";     *)
(* the query is the set of its parameters [key, blank].                    *)
(***************************************************************************)
MAX_PAGES_HARD_LIMIT == 50

\* Bound on the number of content pages of the site.
NumPages == 55

Site == "example.com"

CUrl(n, d, l, q, f) == [netloc |-> n, dir |-> d, leaf |-> l, query |-> q, fragment |-> f]
NoCUrl == CUrl("", <<>>, -1, {}, "")
NoEntry == [url |-> NoCUrl, depth |-> -1]

Param(k) == [key |-> k, blank |-> FALSE]
BlankParam(k) == [key |-> k, blank |-> TRUE]

\* http://example.com/p<i>
P(i) == CUrl(Site, <<"/">>, i, {}, "")
Frag(u, f) == [u EXCEPT !.fragment = f]
WithQuery(u, q) == [u EXCEPT !.query = q]
OnHost(u, n) == [u EXCEPT !.netloc = n]
Dir(d) == CUrl(Site, d, -1, {}, "")

_SKIP_PATH_PREFIXES ==
    { <<"/", "wp-admin">>, <<"/", "wp-login">>, <<"/", "wp-json">>, <<"/", "wp-content">> }

_SKIP_PATH_SUFFIXES ==
    { <<".xml">>, <<".rss">>, <<".atom">>, <<"xmlrpc.php">>, <<"/", "feed">> }

_SKIP_QUERY_PARAMS == {"feed", "preview", "replytocom"}

\* str.lower() on one path token
LowerToken(t) ==
    CASE t = "WP-LOGIN" -> "wp-login"
      [] t = "Feed"     -> "feed"
      [] t = "Category" -> "category"
      [] t = "SiteMap"  -> "sitemap"
      [] OTHER          -> t

Lower(path) == [i \in DOMAIN path |-> LowerToken(path[i])]

RECURSIVE RStripSlash(_)
\* str.rstrip("/")
RStripSlash(path) ==
    IF path # <<>> /\ path[Len(path)] = "/"
      THEN RStripSlash(SubSeq(path, 1, Len(path) - 1))
      ELSE path

\* str.startswith(prefix): the page name follows dir and matches no prefix
StartsWith(path, prefix) ==
    /\ Len(prefix) <= Len(path)
    /\ SubSeq(path, 1, Len(prefix)) = prefix

\* str.endswith(suffix)
EndsWith(path, suffix) ==
    /\ Len(suffix) <= Len(path)
    /\ SubSeq(path, Len(path) - Len(suffix) + 1, Len(path)) = suffix

\* s.rstrip("/") for s in _SKIP_PATH_SUFFIXES
_SKIP_PATH_SUFFIXES_STRIPPED == {RStripSlash(x) : x \in _SKIP_PATH_SUFFIXES}

\* parse_qs(parsed.query).keys(): parameters with a blank value are dropped
QueryKeys(url) == {q.key : q \in {x \in url.query : ~x.blank}}

\* fault variant: the fragment is kept
_normalise_KeepFragment(url) == url

\* urlparse(url)._replace(fragment="").geturl()
_normalise(url) == [url EXCEPT !.fragment = ""]

\* fault variant: a subdomain of the seed's host counts as the same domain
_same_domain_Subdomain(url, netloc) ==
    url.netloc \in {netloc, "blog.example.com"}

\* urlparse(url).netloc == base_netloc
_same_domain(url, netloc) == url.netloc = netloc

_should_skip(url) ==
    LET path == Lower(url.dir)
        \* a path ending in a page name ends in no "/" and in no skip suffix
        path_stripped == IF url.leaf >= 0 THEN <<>> ELSE RStripSlash(path)
    IN  \/ \E prefix \in _SKIP_PATH_PREFIXES : StartsWith(path, prefix)
        \/ \E suffix \in _SKIP_PATH_SUFFIXES_STRIPPED : EndsWith(path_stripped, suffix)
        \/ QueryKeys(url) \cap _SKIP_QUERY_PARAMS # {}

Min(a, b) == IF a <= b THEN a ELSE b

\* fault variant: the hard limit is not applied
EffectiveMaxPages_Uncapped(requested) == requested

\* line 100: min(max_pages, MAX_PAGES_HARD_LIMIT)
EffectiveMaxPages(requested) == Min(requested, MAX_PAGES_HARD_LIMIT)

SiteShapes == {"chain", "hub", "tree", "noisy", "endless"}

AdminUrl == Dir(<<"/", "wp-admin", "/">>)
LoginUrl == Dir(<<"/", "WP-LOGIN", ".php">>)
FeedUrl == Dir(<<"/", "blog", "/", "Feed", "/">>)
SitemapUrl == Dir(<<"/", "sitemap", ".xml">>)
FeedsUrl == Dir(<<"/", "feeds">>)

\* <<P(a), ..., P(b)>>
PageRange(a, b) == [k \in 1..(b - a + 1) |-> P(a + k - 1)]

\* The links extract() reports for the page the server serves at url
\* (absolute, http(s) only, without duplicates); the fragment is not sent.
SiteLinks(shape, url) ==
    LET i == url.leaf IN
    IF url.netloc # Site \/ i < 0 THEN <<>>
    ELSE IF shape = "endless" THEN <<P(i + 1)>>
    ELSE IF i >= NumPages THEN <<>>
    ELSE CASE shape = "chain" ->
                <<P((i + 1) % NumPages)>>
           [] shape = "tree" ->
                (IF 2 * i + 1 < NumPages THEN <<P(2 * i + 1)>> ELSE <<>>)
                \o (IF 2 * i + 2 < NumPages THEN <<Frag(P(2 * i + 2), "x")>> ELSE <<>>)
           [] shape = "noisy" ->
                <<WithQuery(P(i), {Param("replytocom")}), Frag(P(i), "comments")>>
                \o (IF i + 1 < NumPages THEN <<P(i + 1)>> ELSE <<>>)
           [] shape = "hub" ->
                IF i = 0
                  THEN << Frag(P(1), "s1"), Frag(P(1), "s2"), AdminUrl, LoginUrl,
                          FeedUrl, SitemapUrl, FeedsUrl,
                          WithQuery(P(2), {Param("utm"), Param("preview")}),
                          WithQuery(P(3), {BlankParam("feed")}),
                          OnHost(P(4), "blog.example.com"),
                          OnHost(P(5), "example.com:8080"),
                          OnHost(P(6), "com") >>
                       \o PageRange(1, NumPages - 1)
                  ELSE <<Frag(P(0), "top"), P((i + 1) % NumPages)>>

CrawlSeeds == {P(0), Frag(P(0), "intro"), FeedUrl}
MaxPagesArgs == {1, 2, 3, 50, 51, 1000}
MaxDepthArgs == {1, 2, 5, 7}
FailingSets == {{}, {0}, {1}, {2, 3}}

\* fetch_url(url) raises ValueError, httpx.HTTPError or RuntimeError
FetchFails(url) == url.netloc # Site \/ url.leaf \in c_failing \/ url.leaf < 0

CrawlInit ==
    /\ c_pc = "start"
    /\ start_url \in CrawlSeeds
    /\ c_max_pages \in MaxPagesArgs
    /\ max_depth \in MaxDepthArgs
    /\ max_pages = 0
    /\ base_netloc = ""
    /\ visited = {}
    /\ queue = <<>>
    /\ results = <<>>
    /\ c_cur = NoEntry
    /\ c_fetched = <<>>
    /\ c_skipped = {}
    /\ c_site \in SiteShapes
    /\ c_failing \in FailingSets

\* No call of crawl is in progress.
CrawlIdle ==
    /\ c_pc = "idle"
    /\ start_url = NoCUrl
    /\ c_max_pages = 0
    /\ max_depth = 0
    /\ max_pages = 0
    /\ base_netloc = ""
    /\ visited = {}
    /\ queue = <<>>
    /\ results = <<>>
    /\ c_cur = NoEntry
    /\ c_fetched = <<>>
    /\ c_skipped = {}
    /\ c_site = "none"
    /\ c_failing = {}

\* while queue and len(visited) < max_pages
LoopCondition == queue # <<>> /\ Cardinality(visited) < max_pages

\* line 100-106: cap max_pages, take the seed's netloc, seed the queue
CrawlStart ==
    /\ c_pc = "start"
    /\ max_pages' = EffectiveMaxPages(c_max_pages)
    /\ base_netloc' = start_url.netloc
    /\ visited' = {}
    /\ queue' = <<[url |-> start_url, depth |-> 0]>>
    /\ results' = <<>>
    /\ c_pc' = "loop"
    /\ UNCHANGED <<start_url, c_max_pages, max_depth, c_cur, c_fetched, c_skipped,
                   c_site, c_failing>>
    /\ UNCHANGED nonCrawlVars

\* A variant in which the entry of a visited URL goes back to the end of the
\* queue.
CrawlDequeueVisited_Requeue ==
    /\ c_pc = "loop"
    /\ LoopCondition
    /\ _normalise(Head(queue).url) \in visited
    /\ queue' = Append(Tail(queue), Head(queue))
    /\ UNCHANGED <<c_pc, start_url, c_max_pages, max_depth, max_pages, base_netloc,
                   visited, results, c_cur, c_fetched, c_skipped, c_site, c_failing>>
    /\ UNCHANGED nonCrawlVars

\* line 108-113: the dequeued URL was visited before
CrawlDequeueVisited ==
    /\ c_pc = "loop"
    /\ LoopCondition
    /\ _normalise(Head(queue).url) \in visited
    /\ queue' = Tail(queue)
    /\ UNCHANGED <<c_pc, start_url, c_max_pages, max_depth, max_pages, base_netloc,
                   visited, results, c_cur, c_fetched, c_skipped, c_site, c_failing>>
    /\ UNCHANGED nonCrawlVars

\* line 108-118: the dequeued URL is new and matches a skip rule
CrawlDequeueSkip ==
    /\ c_pc = "loop"
    /\ LoopCondition
    /\ LET normalised == _normalise(Head(queue).url) IN
         /\ normalised \notin visited
         /\ _should_skip(normalised)
         /\ visited' = visited \cup {normalised}
         /\ c_skipped' = c_skipped \cup {normalised}
    /\ queue' = Tail(queue)
    /\ UNCHANGED <<c_pc, start_url, c_max_pages, max_depth, max_pages, base_netloc,
                   results, c_cur, c_fetched, c_site, c_failing>>
    /\ UNCHANGED nonCrawlVars

\* line 108-121: the dequeued URL is new and accepted: fetch_url is called
CrawlDequeueFetch ==
    /\ c_pc = "loop"
    /\ LoopCondition
    /\ LET normalised == _normalise(Head(queue).url)
           entry == [url |-> normalised, depth |-> Head(queue).depth]
       IN /\ normalised \notin visited
          /\ ~_should_skip(normalised)
          /\ visited' = visited \cup {normalised}
          /\ c_cur' = entry
          /\ c_fetched' = Append(c_fetched, entry)
    /\ queue' = Tail(queue)
    /\ c_pc' = "fetch"
    /\ UNCHANGED <<start_url, c_max_pages, max_depth, max_pages, base_netloc,
                   results, c_skipped, c_site, c_failing>>
    /\ UNCHANGED nonCrawlVars

\* fault variant: a failed fetch ends the crawl
CrawlFetchFail_Break ==
    /\ c_pc = "fetch"
    /\ FetchFails(c_cur.url)
    /\ c_pc' = "done"
    /\ c_cur' = NoEntry
    /\ UNCHANGED <<start_url, c_max_pages, max_depth, max_pages, base_netloc,
                   visited, queue, results, c_fetched, c_skipped, c_site, c_failing>>
    /\ UNCHANGED nonCrawlVars

\* line 122-124: fetch_url raised; the URL is logged and dropped
CrawlFetchFail ==
    /\ c_pc = "fetch"
    /\ FetchFails(c_cur.url)
    /\ c_pc' = "loop"
    /\ c_cur' = NoEntry
    /\ UNCHANGED <<start_url, c_max_pages, max_depth, max_pages, base_netloc,
                   visited, queue, results, c_fetched, c_skipped, c_site, c_failing>>
    /\ UNCHANGED nonCrawlVars

\* line 143-146: append the new same-domain links, in page order
Enqueue(q, links, depth) ==
    LET link_norm == [i \in DOMAIN links |-> _normalise(links[i])]
        accepted == SelectSeq(link_norm,
                              LAMBDA u : u \notin visited /\ _same_domain(u, base_netloc))
    IN  q \o [i \in DOMAIN accepted |-> [url |-> accepted[i], depth |-> depth + 1]]

\* A variant that also enqueues the links of a page at depth == max_depth.
CrawlFetchOk_Inclusive ==
    /\ c_pc = "fetch"
    /\ ~FetchFails(c_cur.url)
    /\ results' = Append(results, c_cur.url)
    /\ queue' = IF c_cur.depth <= max_depth
                  THEN Enqueue(queue, SiteLinks(c_site, c_cur.url), c_cur.depth)
                  ELSE queue
    /\ c_pc' = "loop"
    /\ c_cur' = NoEntry
    /\ UNCHANGED <<start_url, c_max_pages, max_depth, max_pages, base_netloc,
                   visited, c_fetched, c_skipped, c_site, c_failing>>
    /\ UNCHANGED nonCrawlVars

\* line 126-146: fetch_url returned; extract, record the page, enqueue links
CrawlFetchOk ==
    /\ c_pc = "fetch"
    /\ ~FetchFails(c_cur.url)
    /\ results' = Append(results, c_cur.url)
    /\ queue' = IF c_cur.depth < max_depth
                  THEN Enqueue(queue, SiteLinks(c_site, c_cur.url), c_cur.depth)
                  ELSE queue
    /\ c_pc' = "loop"
    /\ c_cur' = NoEntry
    /\ UNCHANGED <<start_url, c_max_pages, max_depth, max_pages, base_netloc,
                   visited, c_fetched, c_skipped, c_site, c_failing>>
    /\ UNCHANGED nonCrawlVars

\* line 108, 148: the loop condition fails; return results
CrawlReturn ==
    /\ c_pc = "loop"
    /\ ~LoopCondition
    /\ c_pc' = "done"
    /\ UNCHANGED <<start_url, c_max_pages, max_depth, max_pages, base_netloc,
                   visited, queue, results, c_cur, c_fetched, c_skipped, c_site,
                   c_failing>>
    /\ UNCHANGED nonCrawlVars

CrawlNext ==
    \/ CrawlStart
    \/ CrawlDequeueVisited
    \/ CrawlDequeueSkip
    \/ CrawlDequeueFetch
    \/ CrawlFetchFail
    \/ CrawlFetchOk
    \/ CrawlReturn

(***************************************************************************)
(* deduplicator.py                                                         *)
(*                                                                         *)
(* A page text is the non-empty sequence of the paragraphs that            *)
(* text.split("\n\n") yields; the empty text is the single empty           *)
(* paragraph.  A paragraph is [text, pad]: its stripped text and whether   *)
(* whitespace surrounds it.  threshold is kept in hundredths.              *)
(***************************************************************************)
_MIN_BLOCK_LEN == 30

\* Bound on the number of pages of a batch.
MaxDedupPages == 4

Par(t) == [text |-> t, pad |-> FALSE]
Padded(t) == [text |-> t, pad |-> TRUE]

EmptyText == <<Par("")>>

\* len() of the stripped paragraphs the model draws from
StrLen(t) ==
    CASE t = ""       -> 0
      [] t = "short"  -> 29
      [] t = "footer" -> 30
      [] t = "nav"    -> 45
      [] t = "body"   -> 120
      [] t = "nav body" -> 166

PageTexts ==
    { EmptyText,
      <<Par("nav")>>,
      <<Par("nav"), Par("footer")>>,
      <<Padded("nav"), Par("body")>>,
      <<Par("short"), Par("nav")>>,
      <<Par("short")>>,
      <<Par("short"), Par("body")>>,
      <<Par("nav"), Par("footer"), Par("nav")>> }

Thresholds == {50, 60, 100}

RECURSIVE PageLists(_)
PageLists(n) ==
    IF n = 0 THEN {<<>>}
    ELSE LET shorter == PageLists(n - 1) IN
         shorter \cup {Append(s, t) : s \in {x \in shorter : Len(x) = n - 1}, t \in PageTexts}

\* str.strip()
strip(block) == [block EXCEPT !.pad = FALSE]

\* line 19-26
_split_blocks(text) ==
    LET stripped == [i \in DOMAIN text |-> strip(text[i])]
    IN  SelectSeq(stripped, LAMBDA b : b.text # "" /\ StrLen(b.text) >= _MIN_BLOCK_LEN)

\* set(blocks)
Range(s) == {s[i] : i \in DOMAIN s}

\* line 51
page_blocks(pages) == [i \in DOMAIN pages |-> _split_blocks(pages[i])]

\* line 54-57: the number of distinct pages the block appears in
block_page_counts(pages, block) ==
    Cardinality({i \in DOMAIN pages : block \in Range(page_blocks(pages)[i])})

Max(a, b) == IF a >= b THEN a ELSE b

\* fault variant: the minimum of two pages is missing
min_count_NoMinimum(n, t) == (n * t) \div 100

\* line 59: max(2, int(len(pages) * threshold)); int() truncates
min_count(n, t) == Max(2, (n * t) \div 100)

\* line 60-62
Boilerplate(pages, t) ==
    LET all == UNION {Range(page_blocks(pages)[i]) : i \in DOMAIN pages}
    IN  {block \in all : block_page_counts(pages, block) >= min_count(Len(pages), t)}

\* fault variant: no fall back to the original text
Clean_NoFallback(page_text, bp) ==
    LET surviving == SelectSeq(_split_blocks(page_text), LAMBDA b : b \notin bp)
    IN  IF surviving # <<>> THEN surviving ELSE EmptyText

\* line 69-71: "\n\n".join(surviving).strip() if surviving else page_text
Clean(page_text, bp) ==
    LET surviving == SelectSeq(_split_blocks(page_text), LAMBDA b : b \notin bp)
    IN  IF surviving # <<>> THEN surviving ELSE page_text

DedupInit ==
    /\ dd_pc = "call"
    /\ dd_pages \in PageLists(MaxDedupPages)
    /\ threshold \in Thresholds
    /\ boilerplate = {}
    /\ cleaned = <<>>
    /\ dd_flag = FALSE

\* No call of remove_boilerplate is in progress.
DedupIdle ==
    /\ dd_pc = "idle"
    /\ dd_pages = <<>>
    /\ threshold = 0
    /\ boilerplate = {}
    /\ cleaned = <<>>
    /\ dd_flag = FALSE

\* line 48-49: fewer than two pages
RemoveBoilerplateFewPages ==
    /\ dd_pc = "call"
    /\ Len(dd_pages) < 2
    /\ cleaned' = dd_pages
    /\ dd_flag' = FALSE
    /\ dd_pc' = "done"
    /\ UNCHANGED <<dd_pages, threshold, boilerplate>>
    /\ UNCHANGED nonDedupVars

\* line 51-65: no block reaches min_count
RemoveBoilerplateNone ==
    /\ dd_pc = "call"
    /\ Len(dd_pages) >= 2
    /\ Boilerplate(dd_pages, threshold) = {}
    /\ boilerplate' = {}
    /\ cleaned' = dd_pages
    /\ dd_flag' = FALSE
    /\ dd_pc' = "done"
    /\ UNCHANGED <<dd_pages, threshold>>
    /\ UNCHANGED nonDedupVars

\* line 51-73: some block reaches min_count; every page is cleaned
RemoveBoilerplateCleaned ==
    /\ dd_pc = "call"
    /\ Len(dd_pages) >= 2
    /\ Boilerplate(dd_pages, threshold) # {}
    /\ boilerplate' = Boilerplate(dd_pages, threshold)
    /\ cleaned' = [i \in DOMAIN dd_pages |-> Clean(dd_pages[i], boilerplate')]
    /\ dd_flag' = TRUE
    /\ dd_pc' = "done"
    /\ UNCHANGED <<dd_pages, threshold>>
    /\ UNCHANGED nonDedupVars

DedupNext ==
    \/ RemoveBoilerplateFewPages
    \/ RemoveBoilerplateNone
    \/ RemoveBoilerplateCleaned
(***************************************************************************)
(* strategy.py and routers/extract.py                                      *)
(*                                                                         *)
(* auto_extract awaits is_wordpress, extract_via_wordpress_api and         *)
(* discover_urls_via_sitemap; each is taken by what it returns.  The site  *)
(* that _extract_url_list and crawl fetch from is the crawler's            *)
(* environment (c_site, c_failing).  A PageModel is kept as                *)
(* [url, content, content_markdown, images, internal_links]; a text is the *)
(* sequence of its paragraphs, as in deduplicator.py.                      *)
(***************************************************************************)
STRATEGY_MAX_PAGES_HARD_LIMIT == 100

PageModel(u, body, full, imgs, lnks) ==
    [url |-> u, content |-> body, content_markdown |-> full,
     images |-> imgs, internal_links |-> lnks]

\* normalizer.py line 56-74: the frontmatter block of the page at u, one
\* paragraph that no page body contains
make_frontmatter(u) == [text |-> "frontmatter", pad |-> FALSE, of |-> u]

\* line 37: f"{frontmatter}\n\n{content_markdown}" if content_markdown else frontmatter
full_markdown(frontmatter, content_markdown) ==
    IF content_markdown # EmptyText THEN <<frontmatter>> \o content_markdown
    ELSE <<frontmatter>>

\* line 25-48
_build_page_model(u, content_markdown, imgs, lnks) ==
    PageModel(u, content_markdown,
              full_markdown(make_frontmatter(u), content_markdown), imgs, lnks)

\* extract(html, url)[2]: the Markdown body of the page at url
SiteBody(url) ==
    CASE url.leaf < 0      -> EmptyText
      [] url.leaf % 4 = 0  -> <<Par("nav"), Par("body")>>
      [] url.leaf % 4 = 1  -> <<Par("nav"), Par("footer")>>
      [] url.leaf % 4 = 2  -> <<Par("short"), Par("body")>>
      [] OTHER             -> EmptyText

\* extract(html, url)[3]: the images of the page at url
SiteImages(url) ==
    IF url.leaf < 0 THEN <<>>
    ELSE IF url.leaf % 2 = 0 THEN <<"logo.png", "hero.png">> ELSE <<"logo.png">>

\* wordpress.py line 84: clean_soup.get_text(separator=" ", strip=True) of the
\* rendered content of post i: one line of text
WpContentText(i) ==
    IF i % 2 = 1 THEN <<Par("nav body")>> ELSE <<Par("body")>>

\* wordpress.py line 85: markdownify(str(clean_soup)).strip() of the rendered
\* content of post i: post 1 has two paragraphs, post 2 has one
WpContentMd(i) ==
    IF i % 2 = 1 THEN <<Par("nav"), Par("body")>> ELSE <<Par("body")>>

\* _item_to_page: the PageModel of the post whose link is /p<i>
WpPage(i) ==
    PageModel(P(i), WpContentText(i),
              full_markdown(make_frontmatter(P(i)), WpContentMd(i)),
              <<"wp-upload.png">>, <<P(0)>>)

\* the lists extract_via_wordpress_api can return
WpPageLists == { <<>>, <<WpPage(1)>>, <<WpPage(1), WpPage(2)>> }

\* the lists discover_urls_via_sitemap can return: content URLs of the
\* seed's netloc, none of them twice (line 64-65 has nothing to drop)
SitemapLists == { <<>>, <<P(1)>>, <<P(1), P(2), P(4)>> }

PreviewUrl == WithQuery(P(0), {Param("preview")})

ExtractSeeds == {P(0), PreviewUrl}
ExtractMaxPagesArgs == {1, 2, 100}
ExtractMaxDepthArgs == {1, 3}

\* fault variant: the links survive include_links = False
ApiApplyFlags_LinksKept(ps, imgs, lnks) ==
    [i \in DOMAIN ps |->
        [ps[i] EXCEPT !.images = IF imgs THEN ps[i].images ELSE <<>>]]

\* line 117-120: model_copy(update={"images": []}) / {"internal_links": []}
ApiApplyFlags(ps, imgs, lnks) ==
    [i \in DOMAIN ps |->
        [ps[i] EXCEPT !.images = IF imgs THEN ps[i].images ELSE <<>>,
                      !.internal_links = IF lnks THEN ps[i].internal_links ELSE <<>>]]

\* line 77-83: the lists of the page _extract_url_list builds for url
ListPage(url, imgs, lnks) ==
    LET links == SiteLinks(c_site, url)
        base == url.netloc
    IN  _build_page_model(url, SiteBody(url),
                  IF imgs THEN SiteImages(url) ELSE <<>>,
                  IF lnks THEN SelectSeq(links, LAMBDA l : l.netloc = base) ELSE <<>>)

\* line 142-153: the page auto_extract builds from a crawler PageData
CrawlerPage(url, imgs, lnks) ==
    _build_page_model(url, SiteBody(url),
              IF imgs THEN SiteImages(url) ELSE <<>>,
              IF lnks THEN SiteLinks(c_site, url) ELSE <<>>)

ExtractInit ==
    /\ x_pc = "call"
    /\ x_url \in ExtractSeeds
    /\ x_max_pages \in ExtractMaxPagesArgs
    /\ x_max_depth \in ExtractMaxDepthArgs
    /\ include_images \in BOOLEAN
    /\ include_links \in BOOLEAN
    /\ x_limit = 0
    /\ x_api_pages = <<>>
    /\ sitemap_urls = <<>>
    /\ x_idx = 0
    /\ seen = {}
    /\ x_results = <<>>
    /\ strategy = "none"
    /\ x_pages = <<>>
    /\ x_calls = <<>>
    /\ x_api_outcome = "none"
    /\ x_status = 0
    /\ r_pages = <<>>

\* No call of extract_site is in progress.
ExtractIdle ==
    /\ x_pc = "idle"
    /\ x_url = NoCUrl
    /\ x_max_pages = 0
    /\ x_max_depth = 0
    /\ include_images = FALSE
    /\ include_links = FALSE
    /\ x_limit = 0
    /\ x_api_pages = <<>>
    /\ sitemap_urls = <<>>
    /\ x_idx = 0
    /\ seen = {}
    /\ x_results = <<>>
    /\ strategy = "none"
    /\ x_pages = <<>>
    /\ x_calls = <<>>
    /\ x_api_outcome = "none"
    /\ x_status = 0
    /\ r_pages = <<>>

\* crawl has not been called yet; the site it will meet is fixed
CrawlNotCalled ==
    /\ c_pc = "idle"
    /\ start_url = NoCUrl
    /\ c_max_pages = 0
    /\ max_depth = 0
    /\ max_pages = 0
    /\ base_netloc = ""
    /\ visited = {}
    /\ queue = <<>>
    /\ results = <<>>
    /\ c_cur = NoEntry
    /\ c_fetched = <<>>
    /\ c_skipped = {}
    /\ c_site \in SiteShapes
    /\ c_failing \in FailingSets

\* line 109, 112: is_wordpress returned False
ExtractDetectNo ==
    /\ x_pc = "call"
    /\ x_limit' = Min(x_max_pages, STRATEGY_MAX_PAGES_HARD_LIMIT)
    /\ x_calls' = Append(x_calls, "is_wordpress")
    /\ x_pc' = "sitemap"
    /\ UNCHANGED <<x_url, x_max_pages, x_max_depth, include_images, include_links,
                   x_api_pages, sitemap_urls, x_idx, seen, x_results, strategy, x_pages,
                   x_api_outcome, x_status, r_pages>>
    /\ UNCHANGED nonExtractVars

\* line 109, 112-113: is_wordpress returned True
ExtractDetectYes ==
    /\ x_pc = "call"
    /\ x_limit' = Min(x_max_pages, STRATEGY_MAX_PAGES_HARD_LIMIT)
    /\ x_calls' = Append(x_calls, "is_wordpress")
    /\ x_pc' = "api"
    /\ UNCHANGED <<x_url, x_max_pages, x_max_depth, include_images, include_links,
                   x_api_pages, sitemap_urls, x_idx, seen, x_results, strategy, x_pages,
                   x_api_outcome, x_status, r_pages>>
    /\ UNCHANGED nonExtractVars

\* line 115-121: extract_via_wordpress_api returned pages
ExtractApiPages ==
    /\ x_pc = "api"
    /\ \E ps \in WpPageLists :
         /\ ps # <<>>
         /\ Len(ps) <= x_limit
         /\ x_api_pages' = ps
         /\ x_pages' = ApiApplyFlags(ps, include_images, include_links)
    /\ strategy' = "wordpress_api"
    /\ x_calls' = Append(x_calls, "extract_via_wordpress_api")
    /\ x_api_outcome' = "pages"
    /\ x_pc' = "returned"
    /\ UNCHANGED <<x_url, x_max_pages, x_max_depth, include_images, include_links,
                   x_limit, sitemap_urls, x_idx, seen, x_results, x_status, r_pages>>
    /\ UNCHANGED nonExtractVars

\* fault variant: the empty list is returned as the API strategy's result
ExtractApiEmpty_Returned ==
    /\ x_pc = "api"
    /\ x_calls' = Append(x_calls, "extract_via_wordpress_api")
    /\ x_api_outcome' = "empty"
    /\ strategy' = "wordpress_api"
    /\ x_pc' = "returned"
    /\ UNCHANGED <<x_url, x_max_pages, x_max_depth, include_images, include_links,
                   x_limit, x_api_pages, sitemap_urls, x_idx, seen, x_results,
                   x_pages, x_status, r_pages>>
    /\ UNCHANGED nonExtractVars

\* line 115-116: extract_via_wordpress_api returned no page
ExtractApiEmpty ==
    /\ x_pc = "api"
    /\ x_calls' = Append(x_calls, "extract_via_wordpress_api")
    /\ x_api_outcome' = "empty"
    /\ x_pc' = "sitemap"
    /\ UNCHANGED <<x_url, x_max_pages, x_max_depth, include_images, include_links,
                   x_limit, x_api_pages, sitemap_urls, x_idx, seen, x_results,
                   strategy, x_pages, x_status, r_pages>>
    /\ UNCHANGED nonExtractVars

\* fault variant: the exception leaves auto_extract
ExtractApiRaises_Propagated ==
    /\ x_pc = "api"
    /\ x_calls' = Append(x_calls, "extract_via_wordpress_api")
    /\ x_api_outcome' = "raised"
    /\ x_pc' = "failed"
    /\ UNCHANGED <<x_url, x_max_pages, x_max_depth, include_images, include_links,
                   x_limit, x_api_pages, sitemap_urls, x_idx, seen, x_results,
                   strategy, x_pages, x_status, r_pages>>
    /\ UNCHANGED nonExtractVars

\* line 115, 122-123: extract_via_wordpress_api raised; logged, fall through
ExtractApiRaises ==
    /\ x_pc = "api"
    /\ x_calls' = Append(x_calls, "extract_via_wordpress_api")
    /\ x_api_outcome' = "raised"
    /\ x_pc' = "sitemap"
    /\ UNCHANGED <<x_url, x_max_pages, x_max_depth, include_images, include_links,
                   x_limit, x_api_pages, sitemap_urls, x_idx, seen, x_results,
                   strategy, x_pages, x_status, r_pages>>
    /\ UNCHANGED nonExtractVars

\* line 126-127: discover_urls_via_sitemap returned no URL
ExtractSitemapNone ==
    /\ x_pc = "sitemap"
    /\ sitemap_urls' = <<>>
    /\ x_calls' = Append(x_calls, "discover_urls_via_sitemap")
    /\ x_pc' = "crawl"
    /\ UNCHANGED <<x_url, x_max_pages, x_max_depth, include_images, include_links,
                   x_limit, x_api_pages, x_idx, seen, x_results, strategy, x_pages,
                   x_api_outcome, x_status, r_pages>>
    /\ UNCHANGED nonExtractVars

\* line 126-131, 58-59: discover_urls_via_sitemap returned URLs;
\* _extract_url_list is entered
ExtractSitemapFound ==
    /\ x_pc = "sitemap"
    /\ \E urls \in SitemapLists :
         /\ urls # <<>>
         /\ sitemap_urls' = urls
    /\ x_calls' = x_calls \o <<"discover_urls_via_sitemap", "_extract_url_list">>
    /\ x_idx' = 0
    /\ seen' = {}
    /\ x_results' = <<>>
    /\ x_pc' = "list"
    /\ UNCHANGED <<x_url, x_max_pages, x_max_depth, include_images, include_links,
                   x_limit, x_api_pages, strategy, x_pages, x_api_outcome, x_status, r_pages>>
    /\ UNCHANGED nonExtractVars

\* fault variant: the page cap does not end the loop
ListLoopCondition_NoCap == x_idx < Len(sitemap_urls)

\* line 61-63: the for loop goes on
ListLoopCondition == x_idx < Len(sitemap_urls) /\ Len(x_results) < x_limit

\* line 61-72: fetch_url raised; the URL is logged and dropped
ExtractListFetchFail ==
    /\ x_pc = "list"
    /\ ListLoopCondition
    /\ LET url == sitemap_urls[x_idx + 1] IN
         /\ url \notin seen
         /\ FetchFails(url)
         /\ seen' = seen \cup {url}
    /\ x_idx' = x_idx + 1
    /\ UNCHANGED <<x_pc, x_url, x_max_pages, x_max_depth, include_images, include_links,
                   x_limit, x_api_pages, sitemap_urls, x_results, strategy, x_pages,
                   x_calls, x_api_outcome, x_status, r_pages>>
    /\ UNCHANGED nonExtractVars

\* line 61-87: fetch_url returned; the page is built and appended
ExtractListFetchOk ==
    /\ x_pc = "list"
    /\ ListLoopCondition
    /\ LET url == sitemap_urls[x_idx + 1] IN
         /\ url \notin seen
         /\ ~FetchFails(url)
         /\ seen' = seen \cup {url}
         /\ x_results' = Append(x_results, ListPage(url, include_images, include_links))
    /\ x_idx' = x_idx + 1
    /\ UNCHANGED <<x_pc, x_url, x_max_pages, x_max_depth, include_images, include_links,
                   x_limit, x_api_pages, sitemap_urls, strategy, x_pages, x_calls,
                   x_api_outcome, x_status, r_pages>>
    /\ UNCHANGED nonExtractVars

\* line 89, 134-135: _extract_url_list returned pages
ExtractListReturnPages ==
    /\ x_pc = "list"
    /\ ~ListLoopCondition
    /\ x_results # <<>>
    /\ strategy' = "sitemap"
    /\ x_pages' = x_results
    /\ x_pc' = "returned"
    /\ UNCHANGED <<x_url, x_max_pages, x_max_depth, include_images, include_links,
                   x_limit, x_api_pages, sitemap_urls, x_idx, seen, x_results,
                   x_calls, x_api_outcome, x_status, r_pages>>
    /\ UNCHANGED nonExtractVars

\* line 89, 134: _extract_url_list returned no page
ExtractListReturnEmpty ==
    /\ x_pc = "list"
    /\ ~ListLoopCondition
    /\ x_results = <<>>
    /\ x_pc' = "crawl"
    /\ UNCHANGED <<x_url, x_max_pages, x_max_depth, include_images, include_links,
                   x_limit, x_api_pages, sitemap_urls, x_idx, seen, x_results,
                   strategy, x_pages, x_calls, x_api_outcome, x_status, r_pages>>
    /\ UNCHANGED nonExtractVars

\* line 139: crawl(start_url, max_pages=max_pages, max_depth=max_depth) is called
ExtractCallCrawl ==
    /\ x_pc = "crawl"
    /\ c_pc = "idle"
    /\ c_pc' = "start"
    /\ start_url' = x_url
    /\ c_max_pages' = x_limit
    /\ max_depth' = x_max_depth
    /\ x_calls' = Append(x_calls, "crawl")
    /\ x_pc' = "crawling"
    /\ UNCHANGED <<max_pages, base_netloc, visited, queue, results, c_cur, c_fetched,
                   c_skipped, c_site, c_failing>>
    /\ UNCHANGED <<x_url, x_max_pages, x_max_depth, include_images, include_links,
                   x_limit, x_api_pages, sitemap_urls, x_idx, seen, x_results,
                   strategy, x_pages, x_api_outcome, x_status, r_pages>>
    /\ UNCHANGED nonCrawlExtractVars

\* line 139-155: crawl returned; a PageModel is built from every PageData
ExtractCrawlReturned ==
    /\ x_pc = "crawling"
    /\ c_pc = "done"
    /\ x_pages' = [i \in DOMAIN results |->
                    CrawlerPage(results[i], include_images, include_links)]
    /\ strategy' = "crawler"
    /\ x_pc' = "returned"
    /\ UNCHANGED <<x_url, x_max_pages, x_max_depth, include_images, include_links,
                   x_limit, x_api_pages, sitemap_urls, x_idx, seen, x_results,
                   x_calls, x_api_outcome, x_status, r_pages>>
    /\ UNCHANGED nonExtractVars

\* deduplicator.py line 31: threshold: float = 0.6, in hundredths
DEFAULT_THRESHOLD == 60

\* extract.py line 69-82: remove_boilerplate over the content of the pages;
\* when boilerplate was removed content and content_markdown are rebuilt
DedupPages(ps) ==
    LET contents == [i \in DOMAIN ps |-> ps[i].content]
        bp == Boilerplate(contents, DEFAULT_THRESHOLD)
    IN  IF Len(ps) < 2 \/ bp = {} THEN ps
        ELSE [i \in DOMAIN ps |->
                LET clean_content == Clean(contents[i], bp) IN
                [ps[i] EXCEPT
                   !.content = clean_content,
                   !.content_markdown =
                       full_markdown(make_frontmatter(ps[i].url), clean_content)]]

\* extract.py line 55-99: auto_extract returned; the pages are deduplicated
\* and the response is built.  auto_extract lets no ValueError, RequestError
\* or RuntimeError escape, so the handlers of line 62-67 stay unused.
ExtractRespond ==
    /\ x_pc = "returned"
    /\ r_pages' = DedupPages(x_pages)
    /\ x_status' = 200
    /\ x_pc' = "responded"
    /\ UNCHANGED <<x_url, x_max_pages, x_max_depth, include_images, include_links,
                   x_limit, x_api_pages, sitemap_urls, x_idx, seen, x_results,
                   strategy, x_pages, x_calls, x_api_outcome>>
    /\ UNCHANGED nonExtractVars

ExtractNext ==
    \/ ExtractDetectNo
    \/ ExtractDetectYes
    \/ ExtractApiPages
    \/ ExtractApiEmpty
    \/ ExtractApiRaises
    \/ ExtractSitemapNone
    \/ ExtractSitemapFound
    \/ ExtractListFetchFail
    \/ ExtractListFetchOk
    \/ ExtractListReturnPages
    \/ ExtractListReturnEmpty
    \/ ExtractCallCrawl
    \/ CrawlStart
    \/ CrawlDequeueVisited
    \/ CrawlDequeueSkip
    \/ CrawlDequeueFetch
    \/ CrawlFetchFail
    \/ CrawlFetchOk
    \/ CrawlReturn
    \/ ExtractCrawlReturned
    \/ ExtractRespond

(***************************************************************************)
(* sanitizer: strip_shortcodes and sanitize (app/services/sanitizer.py).   *)
(* Markup is a sequence of nodes.  A node is an element (tag, attributes,  *)
(* children), a text node (a sequence of text tokens) or a comment.  An    *)
(* html value is the markup of a string: its nodes and whether the string  *)
(* spells out the <html><body> wrapper.                                    *)
(***************************************************************************)
Attr(n, v) == [name |-> n, value |-> v]
Elem(tag, attrs, kids) == [tag |-> tag, attrs |-> attrs, toks |-> <<>>, kids |-> kids]
Text(toks) == [tag |-> "#text", attrs |-> {}, toks |-> toks, kids |-> <<>>]
CommentNode(toks) == [tag |-> "#comment", attrs |-> {}, toks |-> toks, kids |-> <<>>]
Html(full, nodes) == [full |-> full, nodes |-> nodes]

\* The text tokens that _SHORTCODE_RE matches: an opening, closing or
\* attribute-carrying tag in brackets.  "[1]" and plain words do not match.
_SHORTCODE_RE(tok) ==
    tok \in {"[et_pb_section bg=1]", "[/et_pb_section]", "[vc_row]", "[/vc_row]"}

\* The style values that _HIDDEN_STYLE_RE finds a match in.
_HIDDEN_STYLE_RE(style) == style \in {"display:none", "visibility: hidden"}

_REMOVE_TAGS ==
    {"script", "style", "noscript", "iframe", "object", "embed", "applet",
     "link", "meta", "svg", "canvas", "template"}

\* The attribute names that _JUNK_ATTRS matches: style and on<word>.
_JUNK_ATTRS(name) == name \in {"style", "onclick", "onload"}

_NOISE_KEYWORDS ==
    {"nav", "navbar", "navigation", "menu", "sidebar", "side-bar", "banner",
     "popup", "modal", "cookie", "gdpr", "ads", "advertisement", "tracking",
     "footer", "header", "breadcrumb", "pagination", "social", "share",
     "related", "recommend", "subscribe", "newsletter", "promo", "overlay",
     "comment", "widget", "author-info", "author-bio", "author-box",
     "post-meta", "entry-meta", "wp-block-latest-posts", "wp-block-categories",
     "wp-block-archives", "wp-block-tag-cloud", "site-branding", "site-footer",
     "site-header", "search-form"}

\* The noise keywords that occur as substrings of a lower-cased id or class.
KeywordsIn(value) ==
    CASE value = "site-footer" -> {"footer", "site-footer"}
      [] value = "Nav-Menu"    -> {"nav", "menu"}
      [] value = "widget-area" -> {"widget"}
      [] OTHER                 -> {}

_has_noise_attr(tag) ==
    \E a \in tag.attrs :
        /\ a.name \in {"id", "class"}
        /\ KeywordsIn(a.value) \cap _NOISE_KEYWORDS # {}

\* _SHORTCODE_RE.sub("", html): every match is deleted from the string,
\* wherever it stands; the markup around it is left as it is.
RECURSIVE strip_shortcodes_nodes(_)
strip_shortcodes_nodes(nodes) ==
    [i \in 1..Len(nodes) |->
        [nodes[i] EXCEPT
            !.toks = SelectSeq(@, LAMBDA tok : ~_SHORTCODE_RE(tok)),
            !.kids = strip_shortcodes_nodes(@)]]

strip_shortcodes(html) == Html(html.full, strip_shortcodes_nodes(html.nodes))

\* Adjacent text of the string is one text node of the parsed tree.
RECURSIVE MergeText(_)
MergeText(nodes) ==
    IF nodes = <<>> THEN <<>>
    ELSE LET rest == MergeText(Tail(nodes))
             head == [nodes[1] EXCEPT !.kids = MergeText(@)]
         IN  IF /\ head.tag = "#text"
                /\ rest # <<>>
                /\ rest[1].tag = "#text"
             THEN <<Text(head.toks \o rest[1].toks)>> \o Tail(rest)
             ELSE <<head>> \o rest

\* BeautifulSoup(html, "lxml"): the empty string gives the empty tree, any
\* other string a tree  html > body > nodes.
BeautifulSoup(html) ==
    IF html.nodes = <<>> /\ ~html.full THEN <<>>
    ELSE <<Elem("html", {}, <<Elem("body", {}, MergeText(html.nodes))>>)>>

\* str(soup): the markup of the tree, wrapper included.
str(soup) ==
    IF soup = <<>> THEN Html(FALSE, <<>>)
    ELSE Html(TRUE, soup[1].kids[1].kids)

\* for tag in soup.find_all(_REMOVE_TAGS): tag.decompose()
RECURSIVE decompose_remove_tags(_)
decompose_remove_tags(nodes) ==
    LET kept == SelectSeq(nodes, LAMBDA n : n.tag \notin _REMOVE_TAGS)
    IN  [i \in 1..Len(kept) |->
            [kept[i] EXCEPT !.kids = decompose_remove_tags(@)]]

\* for comment in soup.find_all(string=... Comment): comment.extract()
RECURSIVE extract_comments(_)
extract_comments(nodes) ==
    LET kept == SelectSeq(nodes, LAMBDA n : n.tag # "#comment")
    IN  [i \in 1..Len(kept) |->
            [kept[i] EXCEPT !.kids = extract_comments(@)]]

IsTag(n) == n.tag \notin {"#text", "#comment"}

decomposed_in_loop(n) ==
    /\ IsTag(n)
    /\ \/ _has_noise_attr(n)
       \/ \E a \in n.attrs : a.name = "style" /\ _HIDDEN_STYLE_RE(a.value)

strip_junk_attrs(n) ==
    IF IsTag(n) THEN [n EXCEPT !.attrs = {a \in @ : ~_JUNK_ATTRS(a.name)}]
    ELSE n

\* A variant of the loop that walks the tree lazily: decomposing a tag cuts
\* the walk short, and the siblings after it are left as they are.
RECURSIVE loop_over_tags_Lazy(_)
loop_over_tags_Lazy(nodes) ==
    IF nodes = <<>> THEN <<>>
    ELSE IF decomposed_in_loop(nodes[1]) THEN Tail(nodes)
    ELSE <<[strip_junk_attrs(nodes[1]) EXCEPT !.kids = loop_over_tags_Lazy(@)]>>
         \o loop_over_tags_Lazy(Tail(nodes))

\* for tag in soup.find_all(True): a tag with a noise id/class or a hidden
\* inline style is decomposed with its subtree; any other tag loses its junk
\* attributes.
RECURSIVE loop_over_tags(_)
loop_over_tags(nodes) ==
    LET kept == SelectSeq(nodes, LAMBDA n : ~decomposed_in_loop(n))
    IN  [i \in 1..Len(kept) |->
            [strip_junk_attrs(kept[i]) EXCEPT !.kids = loop_over_tags(@)]]

sanitize(html) ==
    loop_over_tags(extract_comments(decompose_remove_tags(BeautifulSoup(html))))

\* ---- the documents sanitize is applied to ----
MaxBlocks == 2

P_(word) == Elem("p", {}, <<Text(<<word>>)>>)

Blocks ==
    { P_("Content"),
      Elem("header", {}, <<Elem("a", {Attr("href", "/")}, <<Text(<<"Logo">>)>>)>>),
      Elem("footer", {}, <<P_("Copyright")>>),
      Elem("nav", {}, <<Elem("a", {Attr("href", "/about")}, <<Text(<<"About">>)>>)>>),
      Elem("main", {}, <<Elem("article", {},
            <<Elem("header", {}, <<Elem("h1", {}, <<Text(<<"Title">>)>>)>>),
              P_("Body"),
              Elem("footer", {}, <<P_("Tags")>>)>>)>>),
      Elem("div", {Attr("class", "site-footer")}, <<P_("Legal")>>),
      Elem("div", {Attr("id", "Nav-Menu")}, <<P_("Menu")>>),
      Elem("div", {Attr("class", "entry")},
           <<Elem("span", {Attr("style", "display:none")}, <<Text(<<"Hidden">>)>>),
             Elem("aside", {Attr("class", "widget-area")}, <<P_("Widget")>>),
             P_("Entry")>>),
      Elem("p", {Attr("style", "color:red"), Attr("onclick", "go()")},
           <<Text(<<"Styled">>)>>),
      Elem("script", {}, <<Text(<<"var x">>)>>),
      Elem("p", {}, <<Text(<<"a">>), CommentNode(<<"hidden comment">>), Text(<<"b">>)>>) }

BlockSeqs == UNION { [1..n -> Blocks] : n \in 0..MaxBlocks }

Documents == { Html(full, nodes) : full \in BOOLEAN, nodes \in BlockSeqs }

SanitizeInit ==
    /\ s_pc = "start"
    /\ s_html \in Documents
    /\ s_soup = <<>>
    /\ s_again = <<>>

SanitizeIdle ==
    /\ s_pc = "idle"
    /\ s_html = Html(FALSE, <<>>)
    /\ s_soup = <<>>
    /\ s_again = <<>>

\* soup = sanitize(html)
Sanitize ==
    /\ s_pc = "start"
    /\ s_soup' = sanitize(s_html)
    /\ s_pc' = "sanitized"
    /\ UNCHANGED <<s_html, s_again>>
    /\ UNCHANGED nonSanitizeVars

\* sanitize(str(soup))
SanitizeAgain ==
    /\ s_pc = "sanitized"
    /\ s_again' = sanitize(str(s_soup))
    /\ s_pc' = "resanitized"
    /\ UNCHANGED <<s_html, s_soup>>
    /\ UNCHANGED nonSanitizeVars

SanitizeNext == Sanitize \/ SanitizeAgain

(***************************************************************************)
(* wordpress: _item_to_page and the loops of extract_via_wordpress_api     *)
(* (app/services/wordpress.py).  An item of the REST API has a link (NoCUrl*)
(* when the key is missing or empty), a title that is the expected         *)
(* {"rendered": ...} object or not, and its rendered content as markup.    *)
(***************************************************************************)
_WP_RESOURCES == <<"posts", "pages">>

Item(link, title_ok, content) == [link |-> link, title_ok |-> title_ok, content |-> content]

NoPage == PageModel(NoCUrl, <<>>, <<>>, <<>>, <<>>)

\* The text tokens of a tree in document order.
RECURSIVE Strings(_)
Strings(nodes) ==
    IF nodes = <<>> THEN <<>>
    ELSE (IF nodes[1].tag = "#text" THEN nodes[1].toks ELSE Strings(nodes[1].kids))
         \o Strings(Tail(nodes))

\* soup.get_text(separator=" ", strip=True): the stripped, non-empty strings.
get_text(soup) == SelectSeq(Strings(soup), LAMBDA tok : tok # " ")

\* markdownify(str(soup), heading_style="ATX").strip(): one block per string,
\* the empty text when there is none.
markdownify(soup) ==
    LET words == get_text(soup)
    IN  IF words = <<>> THEN EmptyText
        ELSE [i \in 1..Len(words) |-> Par(words[i])]

\* _item_to_page: None for an item without link and for an item whose
\* conversion raises; the contents drawn below hold no img and no a element.
_item_to_page(item) ==
    IF item.link = NoCUrl THEN NoPage
    ELSE IF ~item.title_ok THEN NoPage
    ELSE LET clean_soup == sanitize(item.content)
         IN  PageModel(item.link, get_text(clean_soup),
                       full_markdown(make_frontmatter(item.link),
                                     markdownify(clean_soup)),
                       <<>>, <<>>)

\* ---- the items the API returns ----
MaxItems == 2

Contents ==
    { Html(FALSE, <<>>),
      Html(FALSE, <<Text(<<" ">>)>>),
      Html(FALSE, <<Text(<<"[vc_row]", "[/vc_row]">>)>>),
      Html(FALSE, <<Text(<<"[et_pb_section bg=1]">>), P_("Hello"),
                    Text(<<"[/et_pb_section]">>)>>),
      Html(FALSE, <<Elem("div", {Attr("class", "site-footer")}, <<P_("Legal")>>)>>),
      Html(FALSE, <<P_("Content"), P_("[1]")>>) }

Items ==
    { Item(P(1), TRUE, c) : c \in Contents }
    \cup { Item(NoCUrl, TRUE, Html(FALSE, <<P_("Content")>>)),
           Item(P(2), FALSE, Html(FALSE, <<P_("Content")>>)),
           Item(P(2), TRUE, Html(FALSE, <<P_("Content")>>)) }

WpMaxPagesArgs == {1, 3}

WpInit ==
    /\ w_pc = "resource"
    /\ w_max_pages \in WpMaxPagesArgs
    /\ w_resource = 1
    /\ w_n = 0
    /\ w_pages = <<>>
    /\ seen_urls = {}
    /\ w_src = <<>>

WpIdle ==
    /\ w_pc = "idle"
    /\ w_max_pages = 0
    /\ w_resource = 0
    /\ w_n = 0
    /\ w_pages = <<>>
    /\ seen_urls = {}
    /\ w_src = <<>>

\* if len(pages) >= max_pages: break
WpResourceBreak ==
    /\ w_pc = "resource"
    /\ w_resource <= Len(_WP_RESOURCES)
    /\ Len(w_pages) >= w_max_pages
    /\ w_pc' = "done"
    /\ UNCHANGED <<w_max_pages, w_resource, w_n, w_pages, seen_urls, w_src>>
    /\ UNCHANGED nonWpVars

\* items = await _fetch_wp_resource(base_url, resource, max_pages - len(pages)):
\* a list of at most that many items.
WpFetchResource ==
    /\ w_pc = "resource"
    /\ w_resource <= Len(_WP_RESOURCES)
    /\ Len(w_pages) < w_max_pages
    /\ \E n \in 0..Min(MaxItems, w_max_pages - Len(w_pages)) : w_n' = n
    /\ w_pc' = "items"
    /\ UNCHANGED <<w_max_pages, w_resource, w_pages, seen_urls, w_src>>
    /\ UNCHANGED nonWpVars

\* except Exception: continue
WpFetchRaises ==
    /\ w_pc = "resource"
    /\ w_resource <= Len(_WP_RESOURCES)
    /\ Len(w_pages) < w_max_pages
    /\ w_resource' = w_resource + 1
    /\ UNCHANGED <<w_pc, w_max_pages, w_n, w_pages, seen_urls, w_src>>
    /\ UNCHANGED nonWpVars

\* for item in items: one iteration
WpItem ==
    /\ w_pc = "items"
    /\ w_n > 0
    /\ \E item \in Items :
         LET page == _item_to_page(item)
         IN  IF page # NoPage /\ page.url \notin seen_urls
             THEN /\ seen_urls' = seen_urls \cup {page.url}
                  /\ w_pages' = Append(w_pages, page)
                  /\ w_src' = Append(w_src, item)
             ELSE UNCHANGED <<w_pages, seen_urls, w_src>>
    /\ w_n' = w_n - 1
    /\ UNCHANGED <<w_pc, w_max_pages, w_resource>>
    /\ UNCHANGED nonWpVars

\* the list is exhausted: next resource
WpItemsDone ==
    /\ w_pc = "items"
    /\ w_n = 0
    /\ w_resource' = w_resource + 1
    /\ w_pc' = "resource"
    /\ UNCHANGED <<w_max_pages, w_n, w_pages, seen_urls, w_src>>
    /\ UNCHANGED nonWpVars

\* return pages
WpReturn ==
    /\ w_pc = "resource"
    /\ w_resource > Len(_WP_RESOURCES)
    /\ w_pc' = "done"
    /\ UNCHANGED <<w_max_pages, w_resource, w_n, w_pages, seen_urls, w_src>>
    /\ UNCHANGED nonWpVars

WpNext ==
    \/ WpResourceBreak
    \/ WpFetchResource
    \/ WpFetchRaises
    \/ WpItem
    \/ WpItemsDone
    \/ WpReturn

(***************************************************************************)
(* routers/scrape: the /scrape endpoint (app/routers/scrape.py).  A page   *)
(* is what a fetcher returned: the markup fragments detect_platform looks  *)
(* at and the number of words extract counts in it.                        *)
(***************************************************************************)
RenderModes == {"auto", "http", "browser"}

ScrapePage(via, html, words) == [via |-> via, html |-> html, words |-> words]

NoHtml == ScrapePage("none", <<>>, 0)

\* An SSR page, a WordPress page, a thin and a rich page with an SPA mount.
ScrapeMarkups ==
    { <<"<p>Hello world</p>">>,
      <<"<link href='/wp-content/themes/x.css'>", "<div id=\"root\">">>,
      <<"<div id=\"root\">">> }

ScrapeWordCounts == {1, 500}

ScrapePages(via) ==
    { ScrapePage(via, h, w) : h \in ScrapeMarkups, w \in ScrapeWordCounts }

\* extract(html, url): the tuple of the page.
extract(page) ==
    [content_markdown |-> page, images |-> <<"img.png">>, videos |-> <<>>,
     links |-> <<"http://example.com/about">>, word_count |-> page.words]

NoExtract ==
    [content_markdown |-> NoHtml, images |-> <<>>, videos |-> <<>>,
     links |-> <<>>, word_count |-> 0]

\* ScrapeResponse(...) of step 4, with the filters applied.
ScrapeResponse(extracted, type, with_images, with_links) ==
    [content_markdown |-> extracted.content_markdown,
     images |-> IF with_images THEN extracted.images ELSE <<>>,
     videos |-> extracted.videos,
     links |-> IF with_links THEN extracted.links ELSE <<>>,
     word_count |-> extracted.word_count,
     platform_type |-> type]

NoScrapeResponse == ScrapeResponse(NoExtract, "none", FALSE, FALSE)

\* What fetch_url raises: ValueError (_validate_url), the httpx.HTTPError
\* classes of the request and of raise_for_status, RuntimeError (size,
\* redirects), and httpx.InvalidURL, which client.stream raises for a
\* redirect target that urlparse accepts and httpx does not; it is no
\* httpx.HTTPError.
HttpFetchErrors ==
    {"ValueError", "TimeoutException", "HTTPStatusError", "RequestError", "RuntimeError",
     "InvalidURL"}

\* The status _fetch_with_http maps an exception to, by its except clauses in
\* order; an exception no clause catches leaves the handler, and the server
\* answers 500.
_fetch_with_http_status(exc) ==
    CASE exc = "ValueError"                      -> 400
      [] exc = "TimeoutException"                -> 504
      [] exc = "HTTPStatusError"                 -> 502
      [] exc \in {"RequestError", "RuntimeError"} -> 502
      [] OTHER                                   -> 500

\* What fetch_url_with_browser raises, and the status _fetch_with_browser
\* maps it to.
BrowserFetchErrors == {"ValueError", "RuntimeError", "Error"}

_fetch_with_browser_status(exc) ==
    CASE exc = "ValueError"   -> 400
      [] exc = "RuntimeError" -> 502
      [] OTHER                -> 502

ScrapeInit ==
    /\ sc_pc = "step1"
    /\ render_mode \in RenderModes
    /\ sc_include_images \in BOOLEAN
    /\ sc_include_links \in BOOLEAN
    /\ sc_html = NoHtml
    /\ sc_extracted = NoExtract
    /\ platform_type = "none"
    /\ sc_calls = <<>>
    /\ sc_http_type = "none"
    /\ sc_status = 0
    /\ sc_response = NoScrapeResponse
    /\ sc_exc = "none"

ScrapeIdle ==
    /\ sc_pc = "idle"
    /\ render_mode = "none"
    /\ sc_include_images = FALSE
    /\ sc_include_links = FALSE
    /\ sc_html = NoHtml
    /\ sc_extracted = NoExtract
    /\ platform_type = "none"
    /\ sc_calls = <<>>
    /\ sc_http_type = "none"
    /\ sc_status = 0
    /\ sc_response = NoScrapeResponse
    /\ sc_exc = "none"

\* Step 1, render_mode "browser": html = await _fetch_with_browser(url)
ScrapeStep1Browser ==
    /\ sc_pc = "step1"
    /\ render_mode = "browser"
    /\ sc_calls' = Append(sc_calls, "browser")
    /\ \E page \in ScrapePages("browser") : sc_html' = page
    /\ sc_pc' = "step2"
    /\ UNCHANGED <<render_mode, sc_include_images, sc_include_links, sc_extracted,
                   platform_type, sc_http_type, sc_status, sc_response, sc_exc>>
    /\ UNCHANGED nonScrapeVars

\* Step 1, render_mode "browser": _fetch_with_browser raises HTTPException
ScrapeStep1BrowserRaises ==
    /\ sc_pc = "step1"
    /\ render_mode = "browser"
    /\ sc_calls' = Append(sc_calls, "browser")
    /\ \E exc \in BrowserFetchErrors :
         /\ sc_exc' = exc
         /\ sc_status' = _fetch_with_browser_status(exc)
    /\ sc_pc' = "raised"
    /\ UNCHANGED <<render_mode, sc_include_images, sc_include_links, sc_html,
                   sc_extracted, platform_type, sc_http_type, sc_response>>
    /\ UNCHANGED nonScrapeVars

\* Step 1, "auto" or "http": html = await _fetch_with_http(url)
ScrapeStep1Http ==
    /\ sc_pc = "step1"
    /\ render_mode # "browser"
    /\ sc_calls' = Append(sc_calls, "http")
    /\ \E page \in ScrapePages("http") : sc_html' = page
    /\ sc_pc' = "step2"
    /\ UNCHANGED <<render_mode, sc_include_images, sc_include_links, sc_extracted,
                   platform_type, sc_http_type, sc_status, sc_response, sc_exc>>
    /\ UNCHANGED nonScrapeVars

\* Step 1, "auto" or "http": _fetch_with_http raises HTTPException
ScrapeStep1HttpRaises ==
    /\ sc_pc = "step1"
    /\ render_mode # "browser"
    /\ sc_calls' = Append(sc_calls, "http")
    /\ \E exc \in HttpFetchErrors :
         /\ sc_exc' = exc
         /\ sc_status' = _fetch_with_http_status(exc)
    /\ sc_pc' = "raised"
    /\ UNCHANGED <<render_mode, sc_include_images, sc_include_links, sc_html,
                   sc_extracted, platform_type, sc_http_type, sc_response>>
    /\ UNCHANGED nonScrapeVars

\* Step 2: extract content and detect platform
ScrapeStep2 ==
    /\ sc_pc = "step2"
    /\ sc_extracted' = extract(sc_html)
    /\ platform_type' = detect_platform(sc_html.html, sc_html.words)
    /\ sc_http_type' = detect_platform(sc_html.html, sc_html.words)
    /\ sc_pc' = "step3"
    /\ UNCHANGED <<render_mode, sc_include_images, sc_include_links, sc_html,
                   sc_calls, sc_status, sc_response, sc_exc>>
    /\ UNCHANGED nonScrapeVars

\* A variant of the condition of step 3 that leaves out the render mode.
SpaFallback_AnyMode == platform_type = "spa"

\* if body.render_mode == "auto" and platform_type == "spa"
SpaFallback == render_mode = "auto" /\ platform_type = "spa"

\* Step 3 not taken
ScrapeStep3Skip ==
    /\ sc_pc = "step3"
    /\ ~SpaFallback
    /\ sc_pc' = "step4"
    /\ UNCHANGED <<render_mode, sc_include_images, sc_include_links, sc_html,
                   sc_extracted, platform_type, sc_calls, sc_http_type, sc_status,
                   sc_response, sc_exc>>
    /\ UNCHANGED nonScrapeVars

\* Step 3: the browser returns the rendered page; extract and detect again
ScrapeStep3Browser ==
    /\ sc_pc = "step3"
    /\ SpaFallback
    /\ sc_calls' = Append(sc_calls, "browser")
    /\ \E page \in ScrapePages("browser") :
         /\ sc_html' = page
         /\ sc_extracted' = extract(page)
         /\ platform_type' = detect_platform(page.html, page.words)
    /\ sc_pc' = "step4"
    /\ UNCHANGED <<render_mode, sc_include_images, sc_include_links, sc_http_type,
                   sc_status, sc_response, sc_exc>>
    /\ UNCHANGED nonScrapeVars

\* A variant of the failed retry without the except clause: the HTTPException
\* of _fetch_with_browser ends the request.
ScrapeStep3BrowserRaises_Propagated ==
    /\ sc_pc = "step3"
    /\ SpaFallback
    /\ sc_calls' = Append(sc_calls, "browser")
    /\ sc_status' = 502
    /\ sc_pc' = "raised"
    /\ UNCHANGED <<render_mode, sc_include_images, sc_include_links, sc_html,
                   sc_extracted, platform_type, sc_http_type, sc_response, sc_exc>>
    /\ UNCHANGED nonScrapeVars

\* Step 3: _fetch_with_browser raises; except Exception keeps the HTTP result
ScrapeStep3BrowserRaises ==
    /\ sc_pc = "step3"
    /\ SpaFallback
    /\ sc_calls' = Append(sc_calls, "browser")
    /\ sc_pc' = "step4"
    /\ UNCHANGED <<render_mode, sc_include_images, sc_include_links, sc_html,
                   sc_extracted, platform_type, sc_http_type, sc_status, sc_response, sc_exc>>
    /\ UNCHANGED nonScrapeVars

\* Step 4: apply filters and return
ScrapeStep4 ==
    /\ sc_pc = "step4"
    /\ sc_response' = ScrapeResponse(sc_extracted, platform_type,
                                     sc_include_images, sc_include_links)
    /\ sc_status' = 200
    /\ sc_pc' = "done"
    /\ UNCHANGED <<render_mode, sc_include_images, sc_include_links, sc_html,
                   sc_extracted, platform_type, sc_calls, sc_http_type, sc_exc>>
    /\ UNCHANGED nonScrapeVars

ScrapeNext ==
    \/ ScrapeStep1Browser
    \/ ScrapeStep1BrowserRaises
    \/ ScrapeStep1Http
    \/ ScrapeStep1HttpRaises
    \/ ScrapeStep2
    \/ ScrapeStep3Skip
    \/ ScrapeStep3Browser
    \/ ScrapeStep3BrowserRaises
    \/ ScrapeStep4

(***************************************************************************)
(* sitemap: discover_urls_via_sitemap (app/services/sitemap.py).  A URL is *)
(* kept as [netloc, path, query]: the path is a sequence of tokens ("/" is *)
(* a token, an extension such as ".xml" is a token, and a word the code    *)
(* searches for is a token of its own), the query is its length in         *)
(* characters and whether it ends in ".xml".  A response text is kept as   *)
(* the kind of document it is and the <loc> values it holds.               *)
(***************************************************************************)
_MAX_QUERY_LENGTH == 50

SUrl(n, p, q) == [netloc |-> n, path |-> p, query |-> q]
NoQuery == [len |-> 0, xml |-> FALSE]
Query(n, x) == [len |-> n, xml |-> x]
NoSUrl == SUrl("", <<>>, NoQuery)

\* http://example.com<path>
SiteUrl(p) == SUrl(Site, p, NoQuery)

\* line 21-26
_SITEMAP_PATHS ==
    << <<"/", "sitemap", ".xml">>,
       <<"/", "sitemap", "_index", ".xml">>,
       <<"/", "sitemap", "-index", ".xml">>,
       <<"/", "wp-", "sitemap", ".xml">> >>

\* line 29-34: the alternatives of _SKIP_PATTERN other than page/\d+
_SKIP_SEGMENTS ==
    { "tag", "tags", "category", "categories", "author", "authors", "archive",
      "archives", "feed", "feeds", "wp-content", "wp-includes", "wp-admin",
      "wp-login", "wp-json", "attachment", "embed" }

\* \d+
Digits == {"2", "10"}

\* (?:/|$) at position i of the path
SegmentEnd(path, i) == i > Len(path) \/ path[i] = "/"

\* _SKIP_PATTERN.search(path), re.IGNORECASE: a "/" followed by a denylisted
\* segment, or by page/<digits>, that ends the path or is followed by "/"
_SKIP_PATTERN(path) ==
    LET p == Lower(path) IN
    \E i \in 1..Len(p) :
        /\ p[i] = "/"
        /\ i + 1 <= Len(p)
        /\ \/ p[i + 1] \in _SKIP_SEGMENTS /\ SegmentEnd(p, i + 2)
           \/ /\ p[i + 1] = "page"
              /\ i + 3 <= Len(p)
              /\ p[i + 2] = "/"
              /\ p[i + 3] \in Digits
              /\ SegmentEnd(p, i + 4)

\* url.endswith(".xml"): the URL ends in its query when there is one
endswith_xml(url) ==
    IF url.query.len > 0 THEN url.query.xml
    ELSE url.path # <<>> /\ url.path[Len(url.path)] = ".xml"

\* "sitemap" in parsed.path.lower()
sitemap_in_path(url) ==
    \E i \in 1..Len(url.path) : LowerToken(url.path[i]) = "sitemap"

\* fault variant: the netloc is not compared
_is_content_url_AnyHost(url, netloc) ==
    /\ ~_SKIP_PATTERN(url.path)
    /\ ~(url.query.len > _MAX_QUERY_LENGTH)

\* line 63-73
_is_content_url(url, netloc) ==
    /\ url.netloc = netloc
    /\ ~_SKIP_PATTERN(url.path)
    /\ ~(url.query.len > _MAX_QUERY_LENGTH)

\* ---- response texts ----
\* kind: "empty" (the empty string), "html" (text that is no sitemap),
\* "urlset", "sitemapindex", "malformed" (an opening <urlset in text that
\* is not well-formed XML)
Doc(kind, locs) == [kind |-> kind, locs |-> locs]
EmptyDoc == Doc("empty", <<>>)
HtmlDoc == Doc("html", <<>>)

\* marker in text
Contains(text, marker) ==
    \/ marker = "<urlset" /\ text.kind \in {"urlset", "malformed"}
    \/ marker = "<sitemapindex" /\ text.kind = "sitemapindex"

\* fault variant: only a <urlset marker counts
IsSitemapText_UrlsetOnly(text) ==
    text # EmptyDoc /\ Contains(text, "<urlset")

\* line 93: text and ("<urlset" in text or "<sitemapindex" in text)
IsSitemapText(text) ==
    text # EmptyDoc /\ (Contains(text, "<urlset") \/ Contains(text, "<sitemapindex"))

\* line 49-60: the <loc> values; ParseError leaves the list empty
_parse_sitemap(xml_text) ==
    IF xml_text.kind \in {"urlset", "sitemapindex"} THEN xml_text.locs ELSE <<>>

\* ---- the sites ----
Post(i) == SiteUrl(<<"/", "post", "-", i>>)
SubSitemap(name) == SiteUrl(<<"/", "sitemap", "-", name, ".xml">>)

\* the <loc> values of a urlset that exercises every filter
MixedLocs ==
    << Post("1"),
       SiteUrl(<<"/", "tag", "/", "news">>),
       Post("2"),
       SUrl("cdn.example.net", <<"/", "post", "-", "1">>, NoQuery),
       Post("1"),
       SiteUrl(<<"/", "Category", "/">>),
       SiteUrl(<<"/", "page", "/", "2">>),
       SiteUrl(<<"/", "tagged">>),
       SUrl(Site, <<"/", "search">>, Query(51, FALSE)),
       SUrl(Site, <<"/", "search">>, Query(50, FALSE)),
       SUrl(Site, <<"/", "download">>, Query(8, TRUE)),
       SiteUrl(<<"/", "guide", "-", "SiteMap", "-", "basics">>),
       SiteUrl(<<"/", "feed", ".xml">>) >>

SitemapSites ==
    { "none", "html", "flat", "index", "wp", "cycle", "self", "malformed", "offsite" }

\* the file name of a URL: the tokens after the last "/"
RECURSIVE FileName(_)
FileName(path) ==
    IF path = <<>> \/ path[Len(path)] = "/" THEN <<>>
    ELSE Append(FileName(SubSeq(path, 1, Len(path) - 1)), path[Len(path)])

\* The text fetch_url returns for url on the site; EmptyDoc when it raises.
SitemapDoc(site, url) ==
    LET name == FileName(url.path) IN
    CASE site = "none" -> EmptyDoc
      [] site = "html" -> HtmlDoc
      [] site = "flat" ->
           IF name = <<"sitemap", ".xml">> THEN Doc("urlset", MixedLocs)
           ELSE HtmlDoc
      [] site = "index" ->
           CASE name = <<"sitemap", "_index", ".xml">> ->
                  Doc("sitemapindex", <<SubSitemap("posts"), SubSitemap("pages"),
                                        SubSitemap("gone")>>)
             [] name = <<"wp-", "sitemap", ".xml">> ->
                  Doc("urlset", <<Post("10")>>)
             [] name = <<"sitemap", "-", "posts", ".xml">> ->
                  Doc("urlset", <<Post("1"), Post("2")>>)
             [] name = <<"sitemap", "-", "pages", ".xml">> ->
                  Doc("urlset", <<SiteUrl(<<"/", "about">>), Post("1"),
                                  SiteUrl(<<"/", "wp-admin", "/", "post">>)>>)
             [] OTHER -> EmptyDoc
      [] site = "wp" ->
           CASE name = <<"wp-", "sitemap", ".xml">> ->
                  Doc("sitemapindex", <<SubSitemap("posts")>>)
             [] name = <<"sitemap", "-", "posts", ".xml">> ->
                  Doc("urlset", <<Post("2"), Post("1")>>)
             [] OTHER -> HtmlDoc
      [] site = "cycle" ->
           CASE name = <<"sitemap", ".xml">> ->
                  Doc("sitemapindex", <<SubSitemap("a")>>)
             [] name = <<"sitemap", "-", "a", ".xml">> ->
                  Doc("sitemapindex", <<SiteUrl(_SITEMAP_PATHS[1]), SubSitemap("b"), Post("1")>>)
             [] name = <<"sitemap", "-", "b", ".xml">> ->
                  Doc("sitemapindex", <<SubSitemap("a"), Post("2"), SubSitemap("b")>>)
             [] OTHER -> EmptyDoc
      [] site = "self" ->
           IF name = <<"sitemap", "-index", ".xml">>
           THEN Doc("sitemapindex", <<SiteUrl(_SITEMAP_PATHS[3]), Post("1")>>)
           ELSE EmptyDoc
      [] site = "malformed" ->
           IF name = <<"sitemap", ".xml">> THEN Doc("malformed", <<Post("1")>>)
           ELSE EmptyDoc
      [] site = "offsite" ->
           CASE name = <<"sitemap", ".xml">> ->
                  Doc("sitemapindex",
                      <<SUrl("cdn.example.net", <<"/", "sitemap", "-", "posts", ".xml">>,
                             NoQuery)>>)
             [] name = <<"sitemap", "-", "posts", ".xml">> ->
                  Doc("urlset", <<SUrl("cdn.example.net", <<"/", "post", "-", "1">>, NoQuery),
                                  Post("2")>>)
             [] OTHER -> EmptyDoc

\* line 37-46: the body, or the empty string when fetch_url raises
_fetch_text(url) == SitemapDoc(sm_site, url)

\* line 91: urljoin(base_url.rstrip("/") + "/", path.lstrip("/"))
Candidate(base, path) ==
    [base EXCEPT !.path = RStripSlash(base.path) \o <<"/">> \o Tail(path)]

SitemapBases == { SiteUrl(<<>>), SiteUrl(<<"/">>), SiteUrl(<<"/", "blog">>) }

\* fault variant: a processed sitemap is fetched again
AlreadyProcessed_Never(url) == FALSE

\* line 106
AlreadyProcessed(url) == url \in processed_sitemaps

SitemapInit ==
    /\ sm_pc = "probe"
    /\ base_url \in SitemapBases
    /\ sm_site \in SitemapSites
    /\ sm_path = 1
    /\ initial_sitemap = NoSUrl
    /\ sitemap_queue = <<>>
    /\ processed_sitemaps = {}
    /\ seen_content = {}
    /\ content_urls = <<>>
    /\ sm_locs = <<>>
    /\ sm_probed = <<>>
    /\ sm_fetched = <<>>
    /\ sm_stream = <<>>

SitemapIdle ==
    /\ sm_pc = "idle"
    /\ base_url = NoSUrl
    /\ sm_site = "none"
    /\ sm_path = 0
    /\ initial_sitemap = NoSUrl
    /\ sitemap_queue = <<>>
    /\ processed_sitemaps = {}
    /\ seen_content = {}
    /\ content_urls = <<>>
    /\ sm_locs = <<>>
    /\ sm_probed = <<>>
    /\ sm_fetched = <<>>
    /\ sm_stream = <<>>

\* line 90-93: the candidate's text is no sitemap; next path
SitemapProbeMiss ==
    /\ sm_pc = "probe"
    /\ sm_path <= Len(_SITEMAP_PATHS)
    /\ LET candidate == Candidate(base_url, _SITEMAP_PATHS[sm_path]) IN
         /\ ~IsSitemapText(_fetch_text(candidate))
         /\ sm_probed' = Append(sm_probed, candidate)
    /\ sm_path' = sm_path + 1
    /\ UNCHANGED <<sm_pc, base_url, sm_site, initial_sitemap, sitemap_queue,
                   processed_sitemaps, seen_content, content_urls, sm_locs, sm_fetched,
                   sm_stream>>
    /\ UNCHANGED nonSitemapVars

\* line 90-95, 101-102: the candidate's text is a sitemap; break
SitemapProbeMatch ==
    /\ sm_pc = "probe"
    /\ sm_path <= Len(_SITEMAP_PATHS)
    /\ LET candidate == Candidate(base_url, _SITEMAP_PATHS[sm_path]) IN
         /\ IsSitemapText(_fetch_text(candidate))
         /\ sm_probed' = Append(sm_probed, candidate)
         /\ initial_sitemap' = candidate
         /\ sitemap_queue' = <<candidate>>
    /\ sm_pc' = "loop"
    /\ UNCHANGED <<base_url, sm_site, sm_path, processed_sitemaps, seen_content,
                   content_urls, sm_locs, sm_fetched, sm_stream>>
    /\ UNCHANGED nonSitemapVars

\* line 97-98: no candidate matched; return []
SitemapNoneFound ==
    /\ sm_pc = "probe"
    /\ sm_path > Len(_SITEMAP_PATHS)
    /\ sm_pc' = "done"
    /\ UNCHANGED <<base_url, sm_site, sm_path, initial_sitemap, sitemap_queue,
                   processed_sitemaps, seen_content, content_urls, sm_locs, sm_probed,
                   sm_fetched, sm_stream>>
    /\ UNCHANGED nonSitemapVars

\* line 104-107: the head of the queue was processed before; continue
SitemapDequeueProcessed ==
    /\ sm_pc = "loop"
    /\ sitemap_queue # <<>>
    /\ AlreadyProcessed(Head(sitemap_queue))
    /\ sitemap_queue' = Tail(sitemap_queue)
    /\ UNCHANGED <<sm_pc, base_url, sm_site, sm_path, initial_sitemap,
                   processed_sitemaps, seen_content, content_urls, sm_locs, sm_probed,
                   sm_fetched, sm_stream>>
    /\ UNCHANGED nonSitemapVars

\* line 104-112: the text of the sitemap is empty; continue
SitemapFetchEmpty ==
    /\ sm_pc = "loop"
    /\ sitemap_queue # <<>>
    /\ LET sitemap_url == Head(sitemap_queue) IN
         /\ ~AlreadyProcessed(sitemap_url)
         /\ _fetch_text(sitemap_url) = EmptyDoc
         /\ processed_sitemaps' = processed_sitemaps \cup {sitemap_url}
         /\ sm_fetched' = Append(sm_fetched, sitemap_url)
    /\ sitemap_queue' = Tail(sitemap_queue)
    /\ UNCHANGED <<sm_pc, base_url, sm_site, sm_path, initial_sitemap, seen_content,
                   content_urls, sm_locs, sm_probed, sm_stream>>
    /\ UNCHANGED nonSitemapVars

\* line 104-114: the sitemap is fetched and parsed; the for loop starts
SitemapParse ==
    /\ sm_pc = "loop"
    /\ sitemap_queue # <<>>
    /\ LET sitemap_url == Head(sitemap_queue)
           xml_text == _fetch_text(sitemap_url)
       IN  /\ ~AlreadyProcessed(sitemap_url)
           /\ xml_text # EmptyDoc
           /\ processed_sitemaps' = processed_sitemaps \cup {sitemap_url}
           /\ sm_fetched' = Append(sm_fetched, sitemap_url)
           /\ sm_locs' = _parse_sitemap(xml_text)
    /\ sitemap_queue' = Tail(sitemap_queue)
    /\ sm_pc' = "for"
    /\ UNCHANGED <<base_url, sm_site, sm_path, initial_sitemap, seen_content,
                   content_urls, sm_probed, sm_stream>>
    /\ UNCHANGED nonSitemapVars

\* line 114-116: the <loc> value was seen before; continue
SitemapLocSeen ==
    /\ sm_pc = "for"
    /\ sm_locs # <<>>
    /\ Head(sm_locs) \in seen_content
    /\ sm_stream' = Append(sm_stream, Head(sm_locs))
    /\ sm_locs' = Tail(sm_locs)
    /\ UNCHANGED <<sm_pc, base_url, sm_site, sm_path, initial_sitemap, sitemap_queue,
                   processed_sitemaps, seen_content, content_urls, sm_probed,
                   sm_fetched>>
    /\ UNCHANGED nonSitemapVars

\* line 114-122: a new <loc> value that names a sub-sitemap is enqueued
SitemapLocEnqueue ==
    /\ sm_pc = "for"
    /\ sm_locs # <<>>
    /\ LET url == Head(sm_locs) IN
         /\ url \notin seen_content
         /\ endswith_xml(url) \/ sitemap_in_path(url)
         /\ seen_content' = seen_content \cup {url}
         /\ sitemap_queue' = Append(sitemap_queue, url)
         /\ sm_stream' = Append(sm_stream, url)
    /\ sm_locs' = Tail(sm_locs)
    /\ UNCHANGED <<sm_pc, base_url, sm_site, sm_path, initial_sitemap,
                   processed_sitemaps, content_urls, sm_probed, sm_fetched>>
    /\ UNCHANGED nonSitemapVars

\* line 114-124: a new <loc> value that is a content URL is collected
SitemapLocCollect ==
    /\ sm_pc = "for"
    /\ sm_locs # <<>>
    /\ LET url == Head(sm_locs) IN
         /\ url \notin seen_content
         /\ ~(endswith_xml(url) \/ sitemap_in_path(url))
         /\ _is_content_url(url, base_url.netloc)
         /\ seen_content' = seen_content \cup {url}
         /\ content_urls' = Append(content_urls, url)
         /\ sm_stream' = Append(sm_stream, url)
    /\ sm_locs' = Tail(sm_locs)
    /\ UNCHANGED <<sm_pc, base_url, sm_site, sm_path, initial_sitemap, sitemap_queue,
                   processed_sitemaps, sm_probed, sm_fetched>>
    /\ UNCHANGED nonSitemapVars

\* line 114-123: a new <loc> value that is neither is dropped
SitemapLocDrop ==
    /\ sm_pc = "for"
    /\ sm_locs # <<>>
    /\ LET url == Head(sm_locs) IN
         /\ url \notin seen_content
         /\ ~(endswith_xml(url) \/ sitemap_in_path(url))
         /\ ~_is_content_url(url, base_url.netloc)
         /\ seen_content' = seen_content \cup {url}
         /\ sm_stream' = Append(sm_stream, url)
    /\ sm_locs' = Tail(sm_locs)
    /\ UNCHANGED <<sm_pc, base_url, sm_site, sm_path, initial_sitemap, sitemap_queue,
                   processed_sitemaps, content_urls, sm_probed, sm_fetched>>
    /\ UNCHANGED nonSitemapVars

\* line 114: the for loop is over; back to the while loop
SitemapForDone ==
    /\ sm_pc = "for"
    /\ sm_locs = <<>>
    /\ sm_pc' = "loop"
    /\ UNCHANGED <<base_url, sm_site, sm_path, initial_sitemap, sitemap_queue,
                   processed_sitemaps, seen_content, content_urls, sm_locs, sm_probed,
                   sm_fetched, sm_stream>>
    /\ UNCHANGED nonSitemapVars

\* line 104, 126: the queue is empty; return content_urls
SitemapReturn ==
    /\ sm_pc = "loop"
    /\ sitemap_queue = <<>>
    /\ sm_pc' = "done"
    /\ UNCHANGED <<base_url, sm_site, sm_path, initial_sitemap, sitemap_queue,
                   processed_sitemaps, seen_content, content_urls, sm_locs, sm_probed,
                   sm_fetched, sm_stream>>
    /\ UNCHANGED nonSitemapVars

SitemapNext ==
    \/ SitemapProbeMiss
    \/ SitemapProbeMatch
    \/ SitemapNoneFound
    \/ SitemapDequeueProcessed
    \/ SitemapFetchEmpty
    \/ SitemapParse
    \/ SitemapLocSeen
    \/ SitemapLocEnqueue
    \/ SitemapLocCollect
    \/ SitemapLocDrop
    \/ SitemapForDone
    \/ SitemapReturn

(***************************************************************************)
(* wordpress: the requests of is_wordpress and _fetch_wp_resource          *)
(* (app/services/wordpress.py line 23-67).  Both send their requests with  *)
(* an httpx client built with follow_redirects=True: a redirect response   *)
(* is followed by the client itself.  URLs are those of the fetcher.       *)
(***************************************************************************)
\* Bound on the redirects a server makes the client follow for one request.
MaxApiHops == 1

\* Bound on the number of items a server returns for one API page.
MaxPageItems == 2

\* line 25, 39: urljoin(base_url.rstrip("/") + "/", "wp-json/wp/v2/" + resource)
ApiPath(path, resource) ==
    CASE path = "/"  /\ resource = ""      -> "/wp-json/wp/v2/"
      [] path = "/"  /\ resource = "posts" -> "/wp-json/wp/v2/posts"
      [] path = "/"  /\ resource = "pages" -> "/wp-json/wp/v2/pages"
      [] path = "/a" /\ resource = ""      -> "/a/wp-json/wp/v2/"
      [] path = "/a" /\ resource = "posts" -> "/a/wp-json/wp/v2/posts"
      [] path = "/a" /\ resource = "pages" -> "/a/wp-json/wp/v2/pages"

api_url(base, resource) == [base EXCEPT !.path = ApiPath(base.path, resource)]

ApiBases ==
    { Url("http", "pub.example", "/"),
      Url("https", "pub.example", "/a"),
      Url("http", "internal.corp", "/") }

\* the Location headers the API answers with
ApiLocations ==
    { [kind |-> "abs", url |-> Url("http", "internal.corp", "/")],
      [kind |-> "abs", url |-> Url("file", "", "/etc/passwd")],
      [kind |-> "rel", path |-> "/a"] }

ApiMaxItemsArgs == {1, 3}

\* values of the X-WP-TotalPages header
TotalPagesHeaders == {"absent", "1", "2", "9", "abc"}

\* int(resp.headers.get("X-WP-TotalPages", 1)); "abc" raises ValueError
IsInt(h) == h # "abc"
int(h) ==
    CASE h = "absent" -> 1
      [] h = "1"      -> 1
      [] h = "2"      -> 2
      [] h = "9"      -> 9

\* What a client.get ended with: an exception of the client ("error"), or a
\* response with its status, the kind of its body ("items": a non-empty
\* list of n items, "empty": a falsy JSON value, "scalar": a number or true,
\* "invalid": no JSON) and its X-WP-TotalPages header.
ApiResponse(status, body, n, header) ==
    [status |-> status, body |-> body, n |-> n, header |-> header]
ApiError == ApiResponse(0, "none", 0, "absent")

\* results[:max_items]
Slice(s, n) == SubSeq(s, 1, Min(Len(s), n))

\* break (line 53, 57, 61, 65), then line 67
ApiBreak(resp, res) ==
    /\ a_pc' = "done"
    /\ a_log' = Append(a_log, resp)
    /\ a_ret' = Slice(res, a_max_items)
    /\ a_results' = res

ApiInit ==
    /\ a_pc = "call"
    /\ \/ a_fn = "is_wordpress" /\ a_resource = "" /\ a_max_items = 0
       \/ /\ a_fn = "_fetch_wp_resource"
          /\ a_resource \in {"posts", "pages"}
          /\ a_max_items \in ApiMaxItemsArgs
    /\ a_base_url \in ApiBases
    /\ a_page = 1
    /\ a_results = <<>>
    /\ a_url = NoUrl
    /\ a_hops = 0
    /\ a_requested = {}
    /\ a_pages = <<>>
    /\ a_log = <<>>
    /\ a_ret = <<>>
    /\ a_detected = "none"
    /\ a_exc = "none"

ApiIdle ==
    /\ a_pc = "idle"
    /\ a_fn = "none"
    /\ a_resource = ""
    /\ a_max_items = 0
    /\ a_base_url = NoUrl
    /\ a_page = 0
    /\ a_results = <<>>
    /\ a_url = NoUrl
    /\ a_hops = 0
    /\ a_requested = {}
    /\ a_pages = <<>>
    /\ a_log = <<>>
    /\ a_ret = <<>>
    /\ a_detected = "none"
    /\ a_exc = "none"

\* line 27, 31-32: _validate_url(api_url) raises; is_wordpress returns False
DetectValidateFail ==
    /\ a_pc = "call"
    /\ a_fn = "is_wordpress"
    /\ ~_validate_url(api_url(a_base_url, a_resource))
    /\ a_detected' = "False"
    /\ a_pc' = "done"
    /\ UNCHANGED <<a_fn, a_base_url, a_resource, a_max_items, a_page, a_results, a_url,
                   a_hops, a_requested, a_pages, a_log, a_ret, a_exc>>
    /\ UNCHANGED nonApiVars

\* line 27-29: _validate_url(api_url) returns; client.get(api_url) is sent
DetectGet ==
    /\ a_pc = "call"
    /\ a_fn = "is_wordpress"
    /\ _validate_url(api_url(a_base_url, a_resource))
    /\ a_url' = api_url(a_base_url, a_resource)
    /\ a_requested' = a_requested \cup {api_url(a_base_url, a_resource)}
    /\ a_hops' = 0
    /\ a_pc' = "await"
    /\ UNCHANGED <<a_fn, a_base_url, a_resource, a_max_items, a_page, a_results,
                   a_pages, a_log, a_ret, a_detected, a_exc>>
    /\ UNCHANGED nonApiVars

\* line 30: the response decides
DetectResponse ==
    /\ a_pc = "await"
    /\ a_fn = "is_wordpress"
    /\ \E status \in {200, 404}, namespace \in BOOLEAN :
         /\ a_detected' = IF status = 200 /\ namespace THEN "True" ELSE "False"
         /\ a_log' = Append(a_log, ApiResponse(status, "none", 0, "absent"))
    /\ a_pc' = "done"
    /\ UNCHANGED <<a_fn, a_base_url, a_resource, a_max_items, a_page, a_results, a_url,
                   a_hops, a_requested, a_pages, a_ret, a_exc>>
    /\ UNCHANGED nonApiVars

\* line 31-32: the client raised an httpx.HTTPError; is_wordpress returns False
DetectRequestError ==
    /\ a_pc = "await"
    /\ a_fn = "is_wordpress"
    /\ a_detected' = "False"
    /\ a_log' = Append(a_log, ApiError)
    /\ a_pc' = "done"
    /\ UNCHANGED <<a_fn, a_base_url, a_resource, a_max_items, a_page, a_results, a_url,
                   a_hops, a_requested, a_pages, a_ret, a_exc>>
    /\ UNCHANGED nonApiVars

\* line 42: _validate_url(api_url) raises ValueError, outside every try
ApiValidateFail ==
    /\ a_pc = "call"
    /\ a_fn = "_fetch_wp_resource"
    /\ ~_validate_url(api_url(a_base_url, a_resource))
    /\ a_exc' = "ValueError"
    /\ a_pc' = "raised"
    /\ UNCHANGED <<a_fn, a_base_url, a_resource, a_max_items, a_page, a_results, a_url,
                   a_hops, a_requested, a_pages, a_log, a_ret, a_detected>>
    /\ UNCHANGED nonApiVars

\* line 42-43: _validate_url(api_url) returns; the client is opened
ApiValidateOk ==
    /\ a_pc = "call"
    /\ a_fn = "_fetch_wp_resource"
    /\ _validate_url(api_url(a_base_url, a_resource))
    /\ a_pc' = "loop"
    /\ UNCHANGED <<a_fn, a_base_url, a_resource, a_max_items, a_page, a_results, a_url,
                   a_hops, a_requested, a_pages, a_log, a_ret, a_detected, a_exc>>
    /\ UNCHANGED nonApiVars

\* line 44, 67: len(results) >= max_items; return results[:max_items]
ApiLoopExit ==
    /\ a_pc = "loop"
    /\ ~(Len(a_results) < a_max_items)
    /\ a_ret' = Slice(a_results, a_max_items)
    /\ a_pc' = "done"
    /\ UNCHANGED <<a_fn, a_base_url, a_resource, a_max_items, a_page, a_results, a_url,
                   a_hops, a_requested, a_pages, a_log, a_detected, a_exc>>
    /\ UNCHANGED nonApiVars

\* line 44-49: client.get(api_url, params={..., "page": page, ...}) is sent
ApiGet ==
    /\ a_pc = "loop"
    /\ Len(a_results) < a_max_items
    /\ a_url' = api_url(a_base_url, a_resource)
    /\ a_requested' = a_requested \cup {api_url(a_base_url, a_resource)}
    /\ a_pages' = Append(a_pages, a_page)
    /\ a_hops' = 0
    /\ a_pc' = "await"
    /\ UNCHANGED <<a_fn, a_base_url, a_resource, a_max_items, a_page, a_results,
                   a_log, a_ret, a_detected, a_exc>>
    /\ UNCHANGED nonApiVars

\* repaired variant: the client sends the next request only to a URL that
\* _validate_url accepts
CanFollow_Validated(next_url) == _validate_url(next_url)

\* httpx follows a redirect to every http and https URL
CanFollow(next_url) == next_url.scheme \in {"http", "https"}

\* follow_redirects=True: the response is a redirect and the client sends the
\* request to the Location
ApiRedirectFollowed ==
    /\ a_pc = "await"
    /\ a_hops < MaxApiHops
    /\ \E location \in ApiLocations :
         LET next_url == urljoin(a_url, location) IN
         /\ CanFollow(next_url)
         /\ a_url' = next_url
         /\ a_requested' = a_requested \cup {next_url}
    /\ a_hops' = a_hops + 1
    /\ UNCHANGED <<a_pc, a_fn, a_base_url, a_resource, a_max_items, a_page, a_results,
                   a_pages, a_log, a_ret, a_detected, a_exc>>
    /\ UNCHANGED nonApiVars

\* line 63-65: the client raised an httpx.HTTPError (no connection, timeout,
\* a redirect the client does not follow); break
ApiRequestError ==
    /\ a_pc = "await"
    /\ a_fn = "_fetch_wp_resource"
    /\ ApiBreak(ApiError, a_results)
    /\ UNCHANGED <<a_fn, a_base_url, a_resource, a_max_items, a_page, a_url,
                   a_hops, a_requested, a_pages, a_detected, a_exc>>
    /\ UNCHANGED nonApiVars

\* line 52-53: status 400; break
ApiStatus400 ==
    /\ a_pc = "await"
    /\ a_fn = "_fetch_wp_resource"
    /\ \E body \in {"items", "empty", "invalid"} :
         ApiBreak(ApiResponse(400, body, 0, "absent"), a_results)
    /\ UNCHANGED <<a_fn, a_base_url, a_resource, a_max_items, a_page, a_url,
                   a_hops, a_requested, a_pages, a_detected, a_exc>>
    /\ UNCHANGED nonApiVars

\* line 54, 63-65: raise_for_status() raises httpx.HTTPStatusError; break
ApiStatusError ==
    /\ a_pc = "await"
    /\ a_fn = "_fetch_wp_resource"
    /\ \E status \in {404, 500} :
         ApiBreak(ApiResponse(status, "invalid", 0, "absent"), a_results)
    /\ UNCHANGED <<a_fn, a_base_url, a_resource, a_max_items, a_page, a_url,
                   a_hops, a_requested, a_pages, a_detected, a_exc>>
    /\ UNCHANGED nonApiVars

\* line 55, 63-65: resp.json() raises a ValueError; break
ApiBodyInvalid ==
    /\ a_pc = "await"
    /\ a_fn = "_fetch_wp_resource"
    /\ ApiBreak(ApiResponse(200, "invalid", 0, "absent"), a_results)
    /\ UNCHANGED <<a_fn, a_base_url, a_resource, a_max_items, a_page, a_url,
                   a_hops, a_requested, a_pages, a_detected, a_exc>>
    /\ UNCHANGED nonApiVars

\* line 56-57: not items; break
ApiBodyEmpty ==
    /\ a_pc = "await"
    /\ a_fn = "_fetch_wp_resource"
    /\ \E header \in {"absent", "9"} :
         ApiBreak(ApiResponse(200, "empty", 0, header), a_results)
    /\ UNCHANGED <<a_fn, a_base_url, a_resource, a_max_items, a_page, a_url,
                   a_hops, a_requested, a_pages, a_detected, a_exc>>
    /\ UNCHANGED nonApiVars

\* repaired variant: a body that is no list ends the loop like a decoding error
ApiBodyScalar_Break ==
    /\ a_pc = "await"
    /\ a_fn = "_fetch_wp_resource"
    /\ ApiBreak(ApiResponse(200, "scalar", 0, "absent"), a_results)
    /\ UNCHANGED <<a_fn, a_base_url, a_resource, a_max_items, a_page, a_url,
                   a_hops, a_requested, a_pages, a_detected, a_exc>>
    /\ UNCHANGED nonApiVars

\* line 55-58: resp.json() is a number or true; results.extend(items) raises
\* TypeError, which the except clause of line 63 does not name
ApiBodyScalar ==
    /\ a_pc = "await"
    /\ a_fn = "_fetch_wp_resource"
    /\ a_log' = Append(a_log, ApiResponse(200, "scalar", 0, "absent"))
    /\ a_exc' = "TypeError"
    /\ a_pc' = "raised"
    /\ UNCHANGED <<a_fn, a_base_url, a_resource, a_max_items, a_page, a_results, a_url,
                   a_hops, a_requested, a_pages, a_ret, a_detected>>
    /\ UNCHANGED nonApiVars

\* line 60: page >= total_pages
LastPage(p, header) == p >= int(header)

\* line 55-62: a non-empty list; the items are kept, then the header decides
ApiBodyItems ==
    /\ a_pc = "await"
    /\ a_fn = "_fetch_wp_resource"
    /\ \E n \in 1..MaxPageItems, header \in TotalPagesHeaders :
         LET extended == a_results \o [i \in 1..n |-> a_page]
             resp == ApiResponse(200, "items", n, header)
         IN  IF ~IsInt(header) \/ LastPage(a_page, header)
             THEN ApiBreak(resp, extended) /\ UNCHANGED a_page
             ELSE /\ a_results' = extended
                  /\ a_log' = Append(a_log, resp)
                  /\ a_page' = a_page + 1
                  /\ a_pc' = "loop"
                  /\ UNCHANGED a_ret
    /\ UNCHANGED <<a_fn, a_base_url, a_resource, a_max_items, a_url,
                   a_hops, a_requested, a_pages, a_detected, a_exc>>
    /\ UNCHANGED nonApiVars

ApiNext ==
    \/ DetectValidateFail
    \/ DetectGet
    \/ DetectResponse
    \/ DetectRequestError
    \/ ApiValidateFail
    \/ ApiValidateOk
    \/ ApiLoopExit
    \/ ApiGet
    \/ ApiRedirectFollowed
    \/ ApiRequestError
    \/ ApiStatus400
    \/ ApiStatusError
    \/ ApiBodyInvalid
    \/ ApiBodyEmpty
    \/ ApiBodyScalar
    \/ ApiBodyItems

(***************************************************************************)
(* Specifications: one per component                                       *)
(***************************************************************************)
InitFetch == FetchInit /\ BrowserIdle /\ DetectIdle /\ CrawlIdle /\ DedupIdle
    /\ ExtractIdle /\ SanitizeIdle /\ WpIdle /\ ScrapeIdle
    /\ SitemapIdle /\ ApiIdle
SpecFetch == InitFetch /\ [][FetchNext]_vars

InitBrowser == BrowserInit /\ FetchIdle /\ DetectIdle /\ CrawlIdle /\ DedupIdle
    /\ ExtractIdle /\ SanitizeIdle /\ WpIdle /\ ScrapeIdle
    /\ SitemapIdle /\ ApiIdle
SpecBrowser == InitBrowser /\ [][BrowserNext]_vars

InitDetect == DetectInit /\ FetchIdle /\ BrowserIdle /\ CrawlIdle /\ DedupIdle
    /\ ExtractIdle /\ SanitizeIdle /\ WpIdle /\ ScrapeIdle
    /\ SitemapIdle /\ ApiIdle
SpecDetect == InitDetect /\ [][DetectNext]_vars

InitCrawl == CrawlInit /\ FetchIdle /\ BrowserIdle /\ DetectIdle /\ DedupIdle
    /\ ExtractIdle /\ SanitizeIdle /\ WpIdle /\ ScrapeIdle
    /\ SitemapIdle /\ ApiIdle
SpecCrawl == InitCrawl /\ [][CrawlNext]_vars
\* crawl is a coroutine whose awaited fetch returns or raises (fetch_url has a
\* timeout): a step that is possible is eventually taken.
\* The crawls whose termination is checked: every site shape, a cap below,
\* at and above the number of pages, a small and a large depth.
InitCrawlLive ==
    /\ InitCrawl
    /\ start_url \in {P(0), FeedUrl}
    /\ c_max_pages \in {2, 3, 1000}
    /\ max_depth \in {2, 7}
    /\ c_failing \in {{}, {1}}
SpecCrawlLive == InitCrawlLive /\ [][CrawlNext]_vars /\ WF_vars(CrawlNext)

InitDedup == DedupInit /\ FetchIdle /\ BrowserIdle /\ DetectIdle /\ CrawlIdle
    /\ ExtractIdle /\ SanitizeIdle /\ WpIdle /\ ScrapeIdle
    /\ SitemapIdle /\ ApiIdle
SpecDedup == InitDedup /\ [][DedupNext]_vars

InitExtract ==
    ExtractInit /\ CrawlNotCalled /\ FetchIdle /\ BrowserIdle /\ DetectIdle /\ DedupIdle
    /\ SanitizeIdle /\ WpIdle /\ ScrapeIdle
    /\ SitemapIdle /\ ApiIdle
SpecExtract == InitExtract /\ [][ExtractNext]_vars

InitSanitize ==
    SanitizeInit /\ FetchIdle /\ BrowserIdle /\ DetectIdle /\ CrawlIdle /\ DedupIdle
    /\ ExtractIdle /\ WpIdle /\ ScrapeIdle
    /\ SitemapIdle /\ ApiIdle
SpecSanitize == InitSanitize /\ [][SanitizeNext]_vars

InitWp ==
    WpInit /\ FetchIdle /\ BrowserIdle /\ DetectIdle /\ CrawlIdle /\ DedupIdle
    /\ ExtractIdle /\ SanitizeIdle /\ ScrapeIdle
    /\ SitemapIdle /\ ApiIdle
SpecWp == InitWp /\ [][WpNext]_vars

InitScrape ==
    ScrapeInit /\ FetchIdle /\ BrowserIdle /\ DetectIdle /\ CrawlIdle /\ DedupIdle
    /\ ExtractIdle /\ SanitizeIdle /\ WpIdle
    /\ SitemapIdle /\ ApiIdle
SpecScrape == InitScrape /\ [][ScrapeNext]_vars

InitSitemap ==
    SitemapInit /\ FetchIdle /\ BrowserIdle /\ DetectIdle /\ CrawlIdle /\ DedupIdle
    /\ ExtractIdle /\ SanitizeIdle /\ WpIdle /\ ScrapeIdle /\ ApiIdle
SpecSitemap == InitSitemap /\ [][SitemapNext]_vars
\* discover_urls_via_sitemap is a coroutine whose awaited fetch returns or
\* raises (fetch_url has a timeout): a step that is possible is eventually taken.
SpecSitemapLive == InitSitemap /\ [][SitemapNext]_vars /\ WF_vars(SitemapNext)

InitApi ==
    ApiInit /\ FetchIdle /\ BrowserIdle /\ DetectIdle /\ CrawlIdle /\ DedupIdle
    /\ ExtractIdle /\ SanitizeIdle /\ WpIdle /\ ScrapeIdle /\ SitemapIdle
SpecApi == InitApi /\ [][ApiNext]_vars
\* Both functions are coroutines whose awaited request returns or raises (the
\* clients have a timeout): a step that is possible is eventually taken.
SpecApiLive == InitApi /\ [][ApiNext]_vars /\ WF_vars(ApiNext)

(***************************************************************************)
(* Properties of fetch_url                                                 *)
(***************************************************************************)
RECURSIVE SumSeq(_)
SumSeq(s) == IF s = <<>> THEN 0 ELSE Head(s) + SumSeq(Tail(s))

\* The validation rules as the claims state them: scheme http or https, a
\* non-empty hostname, and no resolved address that is private, loopback,
\* link-local or reserved.
PublicHttpUrl(u) ==
    /\ u.scheme = "http" \/ u.scheme = "https"
    /\ u.hostname # ""
    /\ Resolve(u.hostname) \cap {"private", "loopback", "link_local", "reserved"} = {}

FinalResponse == response # NoResponse /\ response.location.kind = "none"

\* C1: every URL requested by fetch_url (the initial URL and every redirect
\* target) passed validation before its request was issued; when a redirect
\* target fails validation the call ends with the validation error, that
\* target is never requested and no body is returned.
C1_EveryHopValidated ==
    /\ f_requested \subseteq f_validated
    /\ \A u \in f_requested : PublicHttpUrl(u)
    /\ f_rejected # {} =>
         /\ f_pc = "done"
         /\ f_result.kind = "ValueError"
         /\ f_rejected \cap f_requested = {}

\* a redirect target is rejected after two valid hops were followed
C1_Witness ==
    /\ f_rejected # {}
    /\ f_iter >= 2
    /\ f_result.kind = "ValueError"

\* C2: at most MAX_REDIRECTS redirects are followed: a body is returned after
\* at most 10 redirects, the too-many-redirects error is raised exactly when
\* 11 redirects in a row were followed, and never more than 11 requests are
\* issued by one call.
C2_RedirectCap ==
    /\ f_nreq <= 11
    /\ f_result.kind = "body" => f_iter <= 10
    /\ f_result.kind = "TooManyRedirects" => f_iter = 11
    /\ (f_pc = "done" /\ f_iter = 11) => f_result.kind = "TooManyRedirects"

\* a body is returned after exactly 10 redirects
C2_Witness ==
    /\ f_result.kind = "body"
    /\ f_iter = 10
    /\ f_nreq = 11

\* C3: no body larger than MAX_CONTENT_SIZE is returned, whether the
\* Content-Length header announces the excess, is absent or understates the
\* bytes streamed; the streaming read stops at the first chunk that takes the
\* running total over the cap.
C3_SizeBound ==
    /\ f_result.kind = "body" =>
         /\ f_result.size = SumSeq(f_chunks)
         /\ SumSeq(f_chunks) <= 10485760
    /\ (f_pc = "done" /\ FinalResponse /\ response.status \in 200..299
          /\ response.content_length > 10485760) =>
         /\ f_result.kind = "TooLarge"
         /\ f_chunks = <<>>
    /\ SumSeq(f_chunks) > 10485760 =>
         /\ f_pc = "done"
         /\ f_result.kind = "TooLarge"
         /\ SumSeq(SubSeq(f_chunks, 1, Len(f_chunks) - 1)) <= 10485760

\* a Content-Length of 0 was announced, the streamed bytes exceed the cap
C3_Witness ==
    /\ f_result.kind = "TooLarge"
    /\ response.content_length = 0
    /\ SumSeq(f_chunks) > 10485760

\* C4: a body is returned only for a final response with a 2xx status; any
\* other final status ends the call with the HTTP-status error carrying that
\* status, and nothing of the body is read.
C4_BodyOnlyOn2xx ==
    /\ f_result.kind = "body" =>
         /\ FinalResponse
         /\ response.status \in 200..299
    /\ (f_pc = "done" /\ FinalResponse /\ response.status \notin 200..299) =>
         /\ f_result.kind = "HTTPStatusError"
         /\ f_result.status = response.status
         /\ f_chunks = <<>>
         /\ total = 0

\* a final 304 response ends the call with the status error
C4_Witness ==
    /\ f_result.kind = "HTTPStatusError"
    /\ f_result.status = 304

(***************************************************************************)
(* Properties of fetch_url_with_browser                                    *)
(***************************************************************************)
\* C5: every call that launched a browser ends, on every exit path, with the
\* browser context and the browser closed.
C5_BrowserAlwaysReleased ==
    (b_pc = "done" /\ b_browser # "none") =>
        /\ b_browser = "closed"
        /\ b_context # "open"

\* C6: no browser is launched for a URL that fails validation, and the
\* browser never navigates to a URL that fails the validation rules, redirect
\* destinations included.
C6_BrowserNavigatesOnlyValidated ==
    /\ b_browser # "none" => PublicHttpUrl(b_url)
    /\ \A u \in b_navigated : PublicHttpUrl(u)

(***************************************************************************)
(* Properties of detect_platform                                           *)
(***************************************************************************)
HasWpMarker == \E i \in 1..Len(d_html) : d_html[i] \in WpFragments
HasSpaMarker == \E i \in 1..Len(d_html) : d_html[i] \in SpaFragments

StripFragment(u) == [u EXCEPT !.fragment = ""]

RequestedCeiling == IF c_max_pages < 50 THEN c_max_pages ELSE 50

\* C8: whatever max_pages is requested, crawl returns at most
\* min(max_pages, 50) page records and calls fetch_url at most
\* min(max_pages, 50) times.
C8_PageCeiling ==
    /\ Len(results) <= RequestedCeiling
    /\ Len(c_fetched) <= RequestedCeiling

\* 1000 pages were requested and the crawl stopped at 50 page records
C8_Witness ==
    /\ c_pc = "done"
    /\ c_max_pages = 1000
    /\ Len(results) = 50
    /\ queue # <<>>

\* C9: URLs that differ only in the fragment are one page: no two fetches and
\* no two page records of one crawl have the same fragment-stripped URL.
C9_FragmentInvariance ==
    /\ \A i, j \in 1..Len(c_fetched) :
         StripFragment(c_fetched[i].url) = StripFragment(c_fetched[j].url) => i = j
    /\ \A i, j \in 1..Len(results) :
         StripFragment(results[i]) = StripFragment(results[j]) => i = j

\* a fetched page linked to two fragment variants of a page that the crawl
\* fetched, and the seed itself carried a fragment
C9_Witness ==
    /\ c_pc = "done"
    /\ start_url.fragment # ""
    /\ \E k \in 1..Len(results) :
         LET links == SiteLinks(c_site, results[k]) IN
         \E i, j \in 1..Len(links) :
            /\ i # j
            /\ links[i].fragment # ""
            /\ StripFragment(links[i]) = StripFragment(links[j])
            /\ \E m \in 1..Len(results) : results[m] = StripFragment(links[i])

\* C10: a dequeued candidate that matches a skip rule is not fetched and is
\* not counted against max_pages: when the crawl stops with candidates still
\* queued, it has used its whole budget of min(max_pages, 50) fetches.
C10_SkipNotCounted ==
    /\ \A i \in 1..Len(c_fetched) : c_fetched[i].url \notin c_skipped
    /\ (c_pc = "done" /\ queue # <<>>) => Len(c_fetched) >= RequestedCeiling

\* C12: crawl caps max_depth at a ceiling of 5: whatever max_depth is
\* requested, no page deeper than 5 links from the seed is fetched.
C12_DepthCeiling ==
    \A i \in 1..Len(c_fetched) : c_fetched[i].depth <= 5

\* C13: every URL that crawl fetches or enqueues has a netloc exactly equal
\* to the seed's; a link to a subdomain, to a parent domain or to another
\* port of the seed's host is never enqueued and never fetched.
C13_SameNetloc ==
    /\ \A i \in 1..Len(c_fetched) : c_fetched[i].url.netloc = start_url.netloc
    /\ \A i \in 1..Len(queue) : queue[i].url.netloc = start_url.netloc

\* a fetched page linked to a subdomain and to a parent domain of the seed's
\* host, its links were enqueued, and the crawl went on to fetch other pages
C13_Witness ==
    /\ c_pc = "done"
    /\ Len(results) >= 3
    /\ \E k \in 1..Len(c_fetched) :
         LET e == c_fetched[k]
             links == SiteLinks(c_site, e.url)
         IN /\ ~FetchFails(e.url)
            /\ e.depth < max_depth
            /\ \E i \in 1..Len(links) : links[i].netloc = "blog.example.com"
            /\ \E i \in 1..Len(links) : links[i].netloc = "com"
            /\ \E i \in 1..Len(links) : links[i].netloc = "example.com:8080"

(***************************************************************************)
(* Properties of remove_boilerplate                                        *)
(***************************************************************************)
\* the number of input pages in which the stripped block occurs as a paragraph
PagesContaining(block) ==
    Cardinality({i \in DOMAIN dd_pages :
                   \E k \in DOMAIN dd_pages[i] :
                      [dd_pages[i][k] EXCEPT !.pad = FALSE] = block})

CeilOfProduct(n, t) == (n * t + 99) \div 100

\* C19: for a batch of n >= 2 pages and threshold t, a block of at least the
\* minimum length is boilerplate iff it appears verbatim in at least
\* max(2, ceil(n * t)) distinct pages.
C19_CeilThreshold ==
    (dd_pc = "done" /\ Len(dd_pages) >= 2) =>
        \A block \in {Par(t) : t \in {"footer", "nav", "body"}} :
            block \in boilerplate <=>
              /\ PagesContaining(block) >= 2
              /\ PagesContaining(block) >= CeilOfProduct(Len(dd_pages), threshold)

\* C20: remove_boilerplate never empties a page: a page all of whose blocks
\* are boilerplate comes back as its original text, and every non-empty
\* input page gives a non-empty output page.
C20_NeverEmptiesPage ==
    dd_pc = "done" =>
        /\ Len(cleaned) = Len(dd_pages)
        /\ \A i \in DOMAIN dd_pages :
             /\ dd_pages[i] # EmptyText => cleaned[i] # EmptyText
             /\ (\A k \in DOMAIN dd_pages[i] :
                    LET b == [dd_pages[i][k] EXCEPT !.pad = FALSE] IN
                    StrLen(b.text) >= _MIN_BLOCK_LEN => b \in boilerplate)
                => cleaned[i] = dd_pages[i]

\* boilerplate was removed from one page of a batch in which another page
\* consists of boilerplate blocks only and came back unchanged
C20_Witness ==
    /\ dd_pc = "done"
    /\ dd_flag
    /\ \E i, j \in DOMAIN dd_pages :
         /\ dd_pages[i] = <<Par("nav"), Par("footer")>>
         /\ boilerplate = {Par("nav"), Par("footer")}
         /\ cleaned[i] = dd_pages[i]
         /\ dd_pages[j] = <<Padded("nav"), Par("body")>>
         /\ cleaned[j] = <<Par("body")>>

(***************************************************************************)
(* Properties of auto_extract and extract_site                             *)
(***************************************************************************)
UrlsOf(ps) == [i \in DOMAIN ps |-> ps[i].url]

\* the fetches of crawl that have ended
EndedFetches ==
    IF c_pc = "fetch" THEN SubSeq(c_fetched, 1, Len(c_fetched) - 1) ELSE c_fetched

Reachable(u) == ~FetchFails(u)

CallRank(f) ==
    CASE f = "is_wordpress"              -> 1
      [] f = "extract_via_wordpress_api" -> 2
      [] f = "discover_urls_via_sitemap" -> 3
      [] f = "_extract_url_list"         -> 4
      [] f = "crawl"                     -> 5

Called(f) == \E i \in DOMAIN x_calls : x_calls[i] = f

\* C14: auto_extract tries site-API, sitemap, crawler in that order and
\* returns the label of the first that yields a page: 'wordpress_api' comes
\* with at least one page and without any sitemap probe, 'sitemap' comes with
\* at least one page and only after the API path yielded nothing, and the
\* crawler is reached only after both yielded nothing.
C14_StrategyOrder ==
    /\ \A i, j \in DOMAIN x_calls : i < j => CallRank(x_calls[i]) < CallRank(x_calls[j])
    /\ x_api_outcome = "pages" => strategy = "wordpress_api"
    /\ strategy = "wordpress_api" =>
         /\ x_pages # <<>>
         /\ x_api_outcome = "pages"
         /\ ~Called("discover_urls_via_sitemap")
         /\ ~Called("crawl")
    /\ strategy = "sitemap" =>
         /\ x_pages # <<>>
         /\ x_api_outcome # "pages"
         /\ ~Called("crawl")
    /\ strategy = "crawler" =>
         /\ x_api_outcome # "pages"
         /\ x_results = <<>>
         /\ Called("discover_urls_via_sitemap")

\* the API was detected and yielded two pages: the answer is labelled
\* 'wordpress_api' and neither the sitemap nor the crawler was tried
C14_Witness ==
    /\ x_pc = "responded"
    /\ strategy = "wordpress_api"
    /\ Len(x_pages) = 2
    /\ x_calls = <<"is_wordpress", "extract_via_wordpress_api">>

\* C15: when the API was detected but extract_via_wordpress_api raised or
\* returned no page, auto_extract does not fail: it goes on to sitemap
\* discovery and then the crawler, and never returns 'wordpress_api'.
C15_ApiFailureFallsThrough ==
    x_api_outcome \in {"raised", "empty"} =>
        /\ x_pc \in {"sitemap", "list", "crawl", "crawling", "returned", "responded"}
        /\ strategy # "wordpress_api"
        /\ x_pc \in {"returned", "responded"} =>
             /\ strategy \in {"sitemap", "crawler"}
             /\ Called("discover_urls_via_sitemap")
             /\ strategy = "crawler" => Called("crawl")

\* extract_via_wordpress_api raised, no sitemap was found, and the crawler
\* produced the pages of the answer
C15_Witness ==
    /\ x_pc = "responded"
    /\ x_api_outcome = "raised"
    /\ strategy = "crawler"
    /\ x_pages # <<>>
    /\ x_calls = <<"is_wordpress", "extract_via_wordpress_api",
                   "discover_urls_via_sitemap", "crawl">>

\* C16: when auto_extract falls back to the crawler, it returns zero pages
\* only if the fetch of the seed itself failed.
C16_EmptyOnlyIfSeedFailed ==
    (x_pc \in {"returned", "responded"} /\ strategy = "crawler" /\ x_pages = <<>>) =>
        /\ c_fetched # <<>>
        /\ c_fetched[1].url = StripFragment(x_url)
        /\ FetchFails(c_fetched[1].url)

\* C17: when no strategy produced a page, extract_site does not answer with
\* a successful response.
C17_ExhaustionIsFailure ==
    (x_pc = "responded" /\ x_pages = <<>>) => x_status # 200

\* the lists of page i as the strategy that ran produced them
ProducedImages(i) ==
    IF strategy = "wordpress_api" THEN x_api_pages[i].images
    ELSE SiteImages(x_pages[i].url)

ProducedLinks(i) ==
    CASE strategy = "wordpress_api" -> x_api_pages[i].internal_links
      [] strategy = "sitemap" ->
            SelectSeq(SiteLinks(c_site, x_pages[i].url),
                      LAMBDA l : l.netloc = x_pages[i].url.netloc)
      [] strategy = "crawler" -> SiteLinks(c_site, x_pages[i].url)

\* C18: whichever strategy produced the result, every returned page has an
\* empty images list when include_images is false and an empty
\* internal_links list when include_links is false; with a flag true the
\* list is the one the strategy produced.
C18_FlagsUniform ==
    strategy # "none" =>
        \A i \in DOMAIN x_pages :
            /\ x_pages[i].images =
                 IF include_images THEN ProducedImages(i) ELSE <<>>
            /\ x_pages[i].internal_links =
                 IF include_links THEN ProducedLinks(i) ELSE <<>>

\* the API strategy answered with include_links false and include_images
\* true: the links of its pages were emptied and the images were kept
C18_Witness ==
    /\ x_pc = "returned"
    /\ strategy = "wordpress_api"
    /\ include_images
    /\ ~include_links
    /\ x_api_pages[1].internal_links # <<>>
    /\ x_pages[1].internal_links = <<>>
    /\ x_pages[1].images = x_api_pages[1].images
    /\ x_pages[1].images # <<>>

(***************************************************************************)
(* Further properties of remove_boilerplate                                *)
(***************************************************************************)
Stripped(text) == [k \in DOMAIN text |-> [text[k] EXCEPT !.pad = FALSE]]

RECURSIVE IsSubseq(_, _)
\* s is t with some elements left out
IsSubseq(s, t) ==
    IF s = <<>> THEN TRUE
    ELSE IF t = <<>> THEN FALSE
    ELSE IF Head(s) = Head(t) THEN IsSubseq(Tail(s), Tail(t))
    ELSE IsSubseq(s, Tail(t))

\* the non-empty paragraphs of input page i that are not boilerplate
NonBoilerplate(i) ==
    SelectSeq(Stripped(dd_pages[i]), LAMBDA b : b.text # "" /\ b \notin boilerplate)

\* C21: remove_boilerplate removes only boilerplate: every paragraph of an
\* input page that is not in the boilerplate set, short paragraphs included,
\* is still in that page's cleaned text, in the same relative order.
C21_OnlyBoilerplateRemoved ==
    dd_pc = "done" =>
        \A i \in DOMAIN dd_pages : IsSubseq(NonBoilerplate(i), Stripped(cleaned[i]))

\* C22: the returned boolean is true iff deduplication altered at least one
\* page: true implies some output page differs from its input, false implies
\* every output page equals its input.
C22_FlagIffAltered ==
    dd_pc = "done" =>
        (dd_flag <=> \E i \in DOMAIN dd_pages : cleaned[i] # dd_pages[i])

\* no paragraph of the batch that reaches the minimum block length is in
\* max(2, int(n * threshold)) pages or more
NoBlockReachesThreshold ==
    \A t \in {"footer", "nav", "body"} :
        PagesContaining(Par(t)) < Max(2, (Len(dd_pages) * threshold) \div 100)

RecordInvariant(p) ==
    p.content_markdown =
        IF p.content = EmptyText THEN <<make_frontmatter(p.url)>>
        ELSE <<make_frontmatter(p.url)>> \o p.content

\* C24: every page record auto_extract returns, under each strategy, has
\* content_markdown equal to the frontmatter followed by a blank line and
\* exactly content (the frontmatter alone when content is empty), and so has
\* every page record of the response after deduplication.
C24_ContentIsMarkdownBody ==
    /\ \A i \in DOMAIN x_pages : RecordInvariant(x_pages[i])
    /\ \A i \in DOMAIN r_pages : RecordInvariant(r_pages[i])

\* C25: in every page record auto_extract returns, every URL of
\* internal_links has the host of the page's own URL, and no URL is listed
\* twice.
C25_InternalLinksAreInternal ==
    \A i \in DOMAIN x_pages :
        LET links == x_pages[i].internal_links IN
        /\ \A k \in DOMAIN links : links[k].netloc = x_pages[i].url.netloc
        /\ \A k, m \in DOMAIN links : links[k] = links[m] => k = m


(***************************************************************************)
(* Properties of sanitize                                                  *)
(***************************************************************************)
StructuralTags == {"header", "footer", "nav", "aside", "form"}

BodyChildren(soup) == IF soup = <<>> THEN <<>> ELSE soup[1].kids[1].kids

\* The text tokens of the text nodes of a tree.
RECURSIVE Words(_)
Words(nodes) ==
    UNION { IF nodes[i].tag = "#text" THEN Range(nodes[i].toks)
            ELSE Words(nodes[i].kids) : i \in DOMAIN nodes }

\* The text inside header/footer/nav/aside/form elements below an <article>.
RECURSIVE ArticleLevelWords(_, _)
ArticleLevelWords(nodes, inArticle) ==
    UNION { IF inArticle /\ nodes[i].tag \in StructuralTags
            THEN Words(nodes[i].kids)
            ELSE ArticleLevelWords(nodes[i].kids, inArticle \/ nodes[i].tag = "article")
            : i \in DOMAIN nodes }

Sanitized == s_pc \in {"sanitized", "resanitized"}

\* C28: the tree sanitize returns has no header, footer, nav, aside or form
\* element as a direct child of body, and the text of such elements nested in
\* an <article> of the input is still in the tree.
C28_SiteLevelStructureRemoved ==
    Sanitized =>
        /\ \A i \in DOMAIN BodyChildren(s_soup) :
               BodyChildren(s_soup)[i].tag \notin StructuralTags
        /\ ArticleLevelWords(BeautifulSoup(s_html), FALSE) \subseteq Words(s_soup)

\* The half of C28 about elements nested in an <article>, on its own.
ArticleLevelStructureKept ==
    Sanitized => ArticleLevelWords(BeautifulSoup(s_html), FALSE) \subseteq Words(s_soup)

TextAfterStripping(item) == get_text(sanitize(strip_shortcodes(item.content)))

NonPage(item) == item.link = NoCUrl \/ TextAfterStripping(item) = <<>>

\* C26: no page of the result of extract_via_wordpress_api was converted from
\* an item without link or from an item whose content is empty after
\* shortcode-stripping and sanitization.
C26_NonPagesDiscarded ==
    \A i \in DOMAIN w_src : ~NonPage(w_src[i])

\* The half of C26 about the link, on its own.
LinklessDiscarded ==
    \A i \in DOMAIN w_src : w_src[i].link # NoCUrl /\ w_pages[i].url = w_src[i].link

\* C27: neither content nor content_markdown of a converted record holds a
\* shortcode tag, and the text around the tags is in the record.
C27_ShortcodesStripped ==
    \A i \in DOMAIN w_pages :
        /\ \A j \in DOMAIN w_pages[i].content :
               ~_SHORTCODE_RE(w_pages[i].content[j])
        /\ \A j \in DOMAIN w_pages[i].content_markdown :
               ~_SHORTCODE_RE(w_pages[i].content_markdown[j].text)
        /\ Range(TextAfterStripping(w_src[i])) \subseteq Range(w_pages[i].content)

\* The half of C27 about the text between the tags, on its own.
TextBetweenTagsKept ==
    \A i \in DOMAIN w_pages :
        Range(TextAfterStripping(w_src[i])) \subseteq Range(w_pages[i].content)


(***************************************************************************)
(* Properties of the /scrape endpoint                                      *)
(***************************************************************************)
Invocations(fetcher) == Cardinality({i \in DOMAIN sc_calls : sc_calls[i] = fetcher})

BrowserWanted ==
    \/ render_mode = "browser"
    \/ render_mode = "auto" /\ sc_http_type = "spa"

\* C30: the browser is invoked only for render_mode "browser", or for "auto"
\* when the HTTP-fetched page was classified "spa", and a request that ends
\* in such a case has invoked it; the HTTP fetcher is never invoked for
\* "browser"; the browser is invoked at most once, and the page it rendered
\* is the one returned, whatever its classification.
C30_BrowserIffNeeded ==
    /\ Invocations("browser") > 0 => BrowserWanted
    /\ sc_pc \in {"done", "raised"} /\ BrowserWanted => Invocations("browser") > 0
    /\ render_mode = "browser" => Invocations("http") = 0
    /\ Invocations("browser") <= 1
    /\ Invocations("http") <= 1
    /\ sc_pc = "done" /\ sc_html.via = "browser" =>
           /\ sc_response.content_markdown = sc_html
           /\ sc_status = 200

\* An "auto" request whose HTTP page was an SPA shell and whose browser page
\* is again classified "spa": the browser page is returned.
C30_Witness ==
    /\ sc_pc = "done"
    /\ render_mode = "auto"
    /\ sc_calls = <<"http", "browser">>
    /\ sc_http_type = "spa"
    /\ platform_type = "spa"
    /\ sc_response.content_markdown.via = "browser"


\* The browser retry of step 3 was made and failed: html is still the page
\* the HTTP fetcher returned.
RetryFailed ==
    /\ render_mode = "auto"
    /\ sc_calls = <<"http", "browser">>
    /\ sc_html.via = "http"

\* C31: after a failed retry the request goes on to step 4 with the tuple
\* extracted from the HTTP page and platform_type "spa", and the response it
\* returns has status 200 and exactly those fields (filters applied).
C31_FailedRetryKeepsHttpResult ==
    RetryFailed =>
        /\ sc_pc \in {"step4", "done"}
        /\ sc_extracted = extract(sc_html)
        /\ platform_type = "spa"
        /\ sc_pc = "done" =>
               /\ sc_status = 200
               /\ sc_response = ScrapeResponse(extract(sc_html), "spa",
                                               sc_include_images, sc_include_links)

C31_Witness ==
    /\ RetryFailed
    /\ sc_pc = "done"
    /\ sc_status = 200
    /\ sc_response.platform_type = "spa"
    /\ sc_response.content_markdown.via = "http"

\* C32: a request ended by a failure of the step-1 fetch or render has the
\* status of its kind: 400 for a validation error, 504 for a timeout, 502 for
\* an upstream status, a network, size, redirect or browser error; never 200
\* and never an exception without a mapped status.
C32_TypedFailureStatus ==
    sc_pc = "raised" =>
        /\ sc_status \in {400, 502, 504}
        /\ sc_exc = "ValueError" <=> sc_status = 400
        /\ sc_exc = "TimeoutException" <=> sc_status = 504

\* C32 without the exception that no except clause of _fetch_with_http names.
TypedStatusOfNamedErrors ==
    sc_pc = "raised" /\ sc_exc # "InvalidURL" =>
        /\ sc_status \in {400, 502, 504}
        /\ sc_exc = "ValueError" <=> sc_status = 400
        /\ sc_exc = "TimeoutException" <=> sc_status = 504


(***************************************************************************)
(* Termination and depth discipline of crawl                               *)
(***************************************************************************)
\* One iteration of the while loop: the head of the queue is removed, and
\* visited either gains exactly one URL or stays as it is.
LoopIteration ==
    c_pc = "loop" /\ c_pc' # "done" =>
        /\ queue' = Tail(queue)
        /\ \/ visited' = visited
           \/ /\ visited \subseteq visited'
              /\ Cardinality(visited') = Cardinality(visited) + 1

\* C33: crawl terminates, whatever the link graph; when it has returned, the
\* queue is empty or visited holds max_pages URLs; and every loop iteration
\* removes a queue entry and adds one new URL to visited or none.
C33_CrawlTerminates ==
    /\ <>(c_pc = "done")
    /\ [](c_pc = "done" => queue = <<>> \/ Cardinality(visited) >= max_pages)
    /\ [][LoopIteration]_vars

\* A crawl of a cyclic site and of a site without end has returned, once with
\* entries left in the queue.
C33_Witness ==
    /\ c_pc = "done"
    /\ c_site \in {"chain", "endless"}
    /\ queue # <<>>
    /\ Cardinality(visited) = max_pages
    /\ Len(results) >= 2


\* url is one of the normalised links of the page at page_url.
LinkedFrom(page_url, url) ==
    LET links == SiteLinks(c_site, page_url)
    IN  \E k \in DOMAIN links : _normalise(links[k]) = url

\* C34: a queue entry is the seed at depth 0 or a link of a page that was
\* fetched successfully at a depth below max_depth, entered at that depth
\* plus one; so no entry and no fetch is deeper than max_depth, and the links
\* of a page at depth max_depth are not enqueued.
C34_DepthDiscipline ==
    /\ \A i \in 1..Len(queue) :
          /\ queue[i].depth <= max_depth
          /\ \/ queue[i] = [url |-> start_url, depth |-> 0]
             \/ \E j \in 1..Len(c_fetched) :
                   /\ queue[i].depth = c_fetched[j].depth + 1
                   /\ c_fetched[j].depth < max_depth
                   /\ c_fetched[j].url \in Range(results)
                   /\ LinkedFrom(c_fetched[j].url, queue[i].url)
    /\ \A j \in 1..Len(c_fetched) : c_fetched[j].depth <= max_depth

\* A page at depth max_depth was fetched successfully, it links to a URL not
\* visited, and the crawl ended with an empty queue.
C34_Witness ==
    /\ c_pc = "done"
    /\ queue = <<>>
    /\ Cardinality(visited) < max_pages
    /\ \E j \in 1..Len(c_fetched) :
          /\ c_fetched[j].depth = max_depth
          /\ c_fetched[j].url \in Range(results)
          /\ LinkedFrom(c_fetched[j].url, P(max_depth + 1))
          /\ P(max_depth + 1) \notin visited


(***************************************************************************)
(* Properties of discover_urls_via_sitemap                                 *)
(***************************************************************************)
\* the URLs of the conventional paths under the base URL, in the fixed order
Candidates ==
    [i \in 1..Len(_SITEMAP_PATHS) |-> Candidate(base_url, _SITEMAP_PATHS[i])]

\* the response for url contains a <urlset or a <sitemapindex root marker
HasRootMarker(url) ==
    LET text == SitemapDoc(sm_site, url)
    IN  Contains(text, "<urlset") \/ Contains(text, "<sitemapindex")

\* C35: the probing loop fetches the conventional paths in their fixed
\* order; every probed path but the last holds no root marker, so no path
\* after the first match is probed; once probing is over the entry point is
\* the first candidate whose response holds a root marker, and when no
\* candidate holds one the call is over with an empty list and the
\* expansion loop has fetched nothing.
C35_FirstMatchingPathIsEntry ==
    /\ \A i \in DOMAIN sm_probed : sm_probed[i] = Candidates[i]
    /\ \A i \in 1..(Len(sm_probed) - 1) : ~HasRootMarker(sm_probed[i])
    /\ sm_pc \in {"loop", "done"} =>
         IF \E i \in DOMAIN Candidates : HasRootMarker(Candidates[i])
         THEN /\ sm_probed # <<>>
              /\ initial_sitemap = sm_probed[Len(sm_probed)]
              /\ HasRootMarker(initial_sitemap)
         ELSE /\ sm_pc = "done"
              /\ Len(sm_probed) = Len(_SITEMAP_PATHS)
              /\ initial_sitemap = NoSUrl
              /\ content_urls = <<>>
              /\ sm_fetched = <<>>

\* The second path is the entry point although the fourth holds a sitemap
\* too; the fourth was never probed.
C35_Witness ==
    /\ sm_pc = "done"
    /\ Len(sm_probed) = 2
    /\ initial_sitemap = Candidates[2]
    /\ HasRootMarker(Candidates[4])
    /\ content_urls # <<>>

\* C36: the expansion of a sitemap index ends, also when index files name
\* each other or themselves, and the expansion loop fetches no sitemap URL
\* twice.
C36_ExpansionTerminates ==
    /\ <>(sm_pc = "done")
    /\ [](\A i, j \in DOMAIN sm_fetched : i # j => sm_fetched[i] # sm_fetched[j])

\* Three index files that name each other were expanded, and the entry point
\* was named again by one of them.
C36_Witness ==
    /\ sm_pc = "done"
    /\ sm_site = "cycle"
    /\ Len(sm_fetched) = 3
    /\ initial_sitemap \in seen_content
    /\ Len(content_urls) = 2

\* the position of the first occurrence of x in s
FirstIndex(s, x) ==
    CHOOSE k \in DOMAIN s : s[k] = x /\ \A m \in 1..(k - 1) : s[m] # x

\* C37: every collected URL is on the netloc of the base URL, holds no
\* denylisted path segment, has a query of at most 50 characters and is no
\* nested-index location; no URL is collected twice, and the URLs are in
\* the order in which the expansion first met them.
C37_OnlyContentUrls ==
    /\ \A i \in DOMAIN content_urls :
         LET u == content_urls[i] IN
         /\ u.netloc = base_url.netloc
         /\ ~_SKIP_PATTERN(u.path)
         /\ u.query.len <= _MAX_QUERY_LENGTH
         /\ ~endswith_xml(u)
         /\ ~sitemap_in_path(u)
         /\ \E k \in DOMAIN sm_stream : sm_stream[k] = u
    /\ \A i, j \in DOMAIN content_urls :
         i < j => /\ content_urls[i] # content_urls[j]
                  /\ FirstIndex(sm_stream, content_urls[i])
                       < FirstIndex(sm_stream, content_urls[j])

\* A urlset with off-host, denylisted, long-query, nested-index and repeated
\* locations was expanded; four of its thirteen locations were collected.
C37_Witness ==
    /\ sm_pc = "done"
    /\ sm_site = "flat"
    /\ Len(sm_stream) = 13
    /\ Len(content_urls) = 4


(***************************************************************************)
(* Properties of the site-API requests                                     *)
(***************************************************************************)
\* the number of items the first k responses delivered
ItemsUpTo(k) == SumSeq([i \in 1..k |-> a_log[i].n])

\* the k-th response is one the pagination ends with
Stops(k) ==
    LET r == a_log[k] IN
    \/ r = ApiError
    \/ r.status # 200
    \/ r.body \in {"empty", "invalid", "scalar"}
    \/ ~IsInt(r.header)
    \/ k >= int(r.header)
    \/ ItemsUpTo(k) >= a_max_items

\* The pages 1, 2, 3, ... are requested in order and one at a time, no page
\* is requested after a response the pagination ends with, a request is
\* sent only while fewer than max_items items are held, a returned call saw
\* such a response or holds max_items items, and at most max_items items
\* are returned.
PaginationDiscipline ==
    a_fn = "_fetch_wp_resource" =>
        /\ \A i \in DOMAIN a_pages : a_pages[i] = i
        /\ Len(a_log) = IF a_pc = "await" THEN Len(a_pages) - 1 ELSE Len(a_pages)
        /\ \A k \in DOMAIN a_log : Stops(k) => k = Len(a_pages)
        /\ a_pc = "done" => a_log # <<>> /\ Stops(Len(a_log))
        /\ Len(a_ret) <= a_max_items

\* C38: the pagination is disciplined as above, and a call that sent a
\* request ends by returning the items of the pages it fetched, cut to
\* max_items, whatever the last response was.
C38_PaginationKeepsItems ==
    /\ PaginationDiscipline
    /\ a_fn = "_fetch_wp_resource" /\ a_pc \in {"done", "raised"} /\ a_pages # <<>> =>
         /\ a_pc = "done"
         /\ Len(a_ret) = Min(ItemsUpTo(Len(a_log)), a_max_items)

\* every call of is_wordpress and _fetch_wp_resource ends
ApiTerminates == <>(a_pc \in {"done", "raised"})

\* The URL handed to client.get passed _validate_url.
ApiUrlValidated ==
    a_requested # {} => _validate_url(api_url(a_base_url, a_resource))

\* C40: every URL a request of is_wordpress or _fetch_wp_resource was sent
\* to, the targets of followed redirects included, passes _validate_url.
C40_ApiRequestsValidated ==
    \A u \in a_requested : _validate_url(u)


(***************************************************************************)
(* The page cap of auto_extract                                            *)
(***************************************************************************)
\* the records of ps have pairwise distinct URLs
DistinctUrls(ps) == \A i, j \in DOMAIN ps : i # j => ps[i].url # ps[j].url

\* extract_via_wordpress_api: posts and pages together stay within
\* max_pages, and no URL is returned twice.
ApiPathWithinCap ==
    /\ Len(w_pages) <= w_max_pages
    /\ DistinctUrls(w_pages)

====
